---- MODULE Spec2Model ----
(***************************************************************************)
(* A model of gollora's result aggregator (cmd/aggregator.go), of the      *)
(* AnalysisResult aggregate root (internal/models) and of the Q&A agent's   *)
(* index cache (internal/agent/agent.go).                                   *)
(*                                                                         *)
(* Go strings that the code concatenates, compares or lower-cases are      *)
(* modelled as sequences of Unicode code points ("a.go" is                 *)
(* <<97, 46, 103, 111>>); strings the code only compares for equality or   *)
(* uses as map keys (issue type, tool, language) are TLA+ strings.         *)
(***************************************************************************)
EXTENDS Integers, Sequences, FiniteSets, TLC

\* ------------------------------------------------------------------ bounds

\* Most issues an analysis result collects before it is aggregated.
MaxIssues == 3
\* Most issues of a result that is aggregated with AI re-scoring enabled.
MaxScored == 2
\* Most issues one goroutine adds.
MaxAdds == 1

\* ----------------------------------------------------------------- strings

\* Go's s < t on strings: bytewise, which on UTF-8 is code point order.
RECURSIVE StrLess(_, _)
StrLess(s, t) ==
    IF t = <<>> THEN FALSE
    ELSE IF s = <<>> THEN TRUE
    ELSE IF Head(s) # Head(t) THEN Head(s) < Head(t)
    ELSE StrLess(Tail(s), Tail(t))

\* strings.ToLower on the ASCII letters A..Z (the only upper-case input here).
ToLower(s) == [i \in 1..Len(s) |-> IF s[i] >= 65 /\ s[i] <= 90 THEN s[i] + 32 ELSE s[i]]

\* Go's string(n) for an int n: the one-rune string of code point n, and
\* U+FFFD when n is no valid code point (negative, a surrogate, too large).
RuneString(n) ==
    IF n < 0 \/ n > 1114111 \/ (n >= 55296 /\ n <= 57343) THEN <<65533>> ELSE <<n>>

\* ------------------------------------------------------------------ models

Critical == <<67, 82, 73, 84, 73, 67, 65, 76>>   \* "CRITICAL"
Error    == <<69, 82, 82, 79, 82>>               \* "ERROR"
Warning  == <<87, 65, 82, 78, 73, 78, 71>>       \* "WARNING"
Info     == <<73, 78, 70, 79>>                   \* "INFO"
Hint     == <<72, 73, 78, 84>>                   \* "HINT"

KnownSeverities == {Critical, Error, Warning, Info, Hint}

\* filepath.Base on a slash-separated path without a trailing slash.
RECURSIVE Base(_)
Base(path) ==
    IF \E i \in 1..Len(path) : path[i] = 47
    THEN Base(Tail(path))
    ELSE path

\* filepath.Ext: the suffix of the last path element from its final dot on.
RECURSIVE ExtFrom(_, _)
ExtFrom(name, i) ==
    IF i = 0 THEN <<>>
    ELSE IF name[i] = 46 THEN SubSeq(name, i, Len(name))
    ELSE ExtFrom(name, i - 1)

Ext(path) == ExtFrom(Base(path), Len(Base(path)))

DetectLanguageFromFile(filePath) ==
    IF filePath = <<>> THEN "unknown"
    ELSE LET ext == ToLower(Ext(filePath)) IN
         IF ext = <<>>
         THEN LET fileName == Base(filePath) IN
              CASE fileName = <<68, 111, 99, 107, 101, 114, 102, 105, 108, 101>> -> "dockerfile"
                [] fileName = <<77, 97, 107, 101, 102, 105, 108, 101>> -> "makefile"
                [] fileName = <<71, 101, 109, 102, 105, 108, 101>> -> "ruby"
                [] fileName = <<82, 97, 107, 101, 102, 105, 108, 101>> -> "ruby"
                [] OTHER -> "unknown"
         ELSE LET e == Tail(ext) IN
              CASE e = <<103, 111>> -> "go"
                [] e = <<106, 115>> -> "javascript"
                [] e = <<116, 115>> -> "typescript"
                [] e = <<106, 115, 120>> -> "javascript"
                [] e = <<116, 115, 120>> -> "typescript"
                [] e = <<112, 121>> -> "python"
                [] e = <<106, 97, 118, 97>> -> "java"
                [] e = <<114, 98>> -> "ruby"
                [] e = <<112, 104, 112>> -> "php"
                [] e = <<99>> -> "c"
                [] e = <<104>> -> "c"
                [] e = <<99, 112, 112>> -> "cpp"
                [] e = <<104, 112, 112>> -> "cpp"
                [] e = <<99, 99>> -> "cpp"
                [] e = <<99, 115>> -> "csharp"
                [] e = <<114, 115>> -> "rust"
                [] e = <<115, 119, 105, 102, 116>> -> "swift"
                [] e = <<107, 116>> -> "kotlin"
                [] e = <<107, 116, 115>> -> "kotlin"
                [] e = <<115, 104>> -> "shell"
                [] e = <<121, 97, 109, 108>> -> "yaml"
                [] e = <<121, 109, 108>> -> "yaml"
                [] e = <<106, 115, 111, 110>> -> "json"
                [] e = <<109, 100>> -> "markdown"
                [] e = <<104, 116, 109, 108>> -> "html"
                [] e = <<104, 116, 109>> -> "html"
                [] e = <<99, 115, 115>> -> "css"
                [] e = <<115, 113, 108>> -> "sql"
                [] e = <<100, 97, 114, 116>> -> "dart"
                [] OTHER -> "unknown"

\* A Go map[string]int: a function on the keys present; m[k]++ on a missing
\* key starts from the zero value.
EmptyMap == [k \in {} |-> 0]

Incr(m, k) ==
    [x \in DOMAIN m \cup {k} |-> IF x = k THEN (IF k \in DOMAIN m THEN m[k] + 1 ELSE 1) ELSE m[x]]

\* models.NewAnalysisResult: no issues, zero counts, empty maps.
NewAnalysisResult ==
    [Issues |-> <<>>,
     Summary |-> [TotalIssues |-> 0, CriticalCount |-> 0, ErrorCount |-> 0,
                  WarningCount |-> 0, InfoCount |-> 0, HintCount |-> 0,
                  IssuesByType |-> EmptyMap, IssuesByFile |-> EmptyMap,
                  IssuesByLanguage |-> EmptyMap, IssuesByTool |-> EmptyMap]]

FileA == <<97, 46, 103, 111>>   \* "a.go"
FileB == <<98, 46, 112, 121>>   \* "b.py"

\* DetectLanguageFromFile on the two file names above, worked out once.
LanguageOfFile == [f \in {FileA, FileB} |-> DetectLanguageFromFile(f)]

\* The call of DetectLanguageFromFile in AddIssue.
DetectLanguage(filePath) ==
    IF filePath \in DOMAIN LanguageOfFile THEN LanguageOfFile[filePath]
    ELSE DetectLanguageFromFile(filePath)

\* The language AddIssue stores in the issue before it takes the lock.
WithLanguage(issue) ==
    IF Len(issue.File) > 0 /\ issue.Language = ""
    THEN [issue EXCEPT !.Language = DetectLanguage(issue.File)]
    ELSE issue

\* The switch on issue.Severity of AddIssue.
CountSeverity(s, severity) ==
    CASE severity = Critical -> [s EXCEPT !.CriticalCount = @ + 1]
      [] severity = Error    -> [s EXCEPT !.ErrorCount = @ + 1]
      [] severity = Warning  -> [s EXCEPT !.WarningCount = @ + 1]
      [] severity = Info     -> [s EXCEPT !.InfoCount = @ + 1]
      [] severity = Hint     -> [s EXCEPT !.HintCount = @ + 1]
      [] OTHER               -> s

\* The four map increments of AddIssue.
CountMaps(s, issue) ==
    [s EXCEPT !.IssuesByType = Incr(@, issue.Type),
              !.IssuesByFile = Incr(@, issue.File),
              !.IssuesByTool = Incr(@, issue.Tool),
              !.IssuesByLanguage = Incr(@, DetectLanguage(issue.File))]

\* AnalysisResult.AddIssue, run by one caller at a time.
AddIssue(r, issue) ==
    LET stored == WithLanguage(issue) IN
    [r EXCEPT !.Issues = Append(@, stored),
              !.Summary = CountMaps(CountSeverity(@, stored.Severity), stored)]

RECURSIVE AddAll(_, _)
AddAll(r, issues) ==
    IF issues = <<>> THEN r ELSE AddAll(AddIssue(r, Head(issues)), Tail(issues))

\* ------------------------------------------------------------- aggregator

VARIABLES
    result,      \* the AnalysisResult: collected, then the one AggregateResults returns
    aiEnabled,   \* config.AI.Enabled
    rawIssues,   \* the issue sequence AggregateResults was called with
    responses,   \* what the completion service answered for each raw issue
    pc,          \* "collect", "aggregated" or "filtered"
    threshold,   \* the threshold FilterIssuesByThreshold was called with
    filtered     \* what FilterIssuesByThreshold returned

aggVars == <<result, aiEnabled, rawIssues, responses, pc, threshold, filtered>>

VARIABLES
    shared,      \* the AnalysisResult that concurrent goroutines add to
    mutex,       \* shared's mutex: the goroutine that holds it, "free" when none does
    todo,        \* per goroutine: the issues it has still to add
    given,       \* per goroutine: the issues it was started with
    gpc,         \* per goroutine: its position inside AddIssue
    cur,         \* per goroutine: the issue argument of its running AddIssue
    tmp          \* per goroutine: what it last read of shared before writing it back

concVars == <<shared, mutex, todo, given, gpc, cur, tmp>>

VARIABLES
    repo,        \* the repository: whether it has .git, its HEAD, its files
    cacheFile,   \* the cache file of the repository path
    call,        \* what the latest NewAgent call met, did and returned
    first        \* the call that indexed and wrote the record now in the cache file

agentVars == <<repo, cacheFile, call, first>>

VARIABLES
    vectorStore,   \* the chunk store of the agent that is asked
    request,       \* the question embedding and k of the latest retrieveChunks call
    retrieved,     \* what that call returned
    reply          \* what the latest Ask call did and returned

ragVars == <<vectorStore, request, retrieved, reply>>

VARIABLES
    apc,           \* the position of Analyze: "dispatch", then the steps after wg.Wait()
    pending,       \* the goroutines Analyze has still to start
    wg,            \* the counter of the WaitGroup
    resultMutex,   \* the goroutine that holds resultMutex, "free" when none does
    worker,        \* per goroutine: its position, the issues its analyzer returned
    report,        \* the AnalysisResult that Analyze builds and returns
    seen           \* what each use of the result after the join found in it

analyzeVars == <<apc, pending, wg, resultMutex, worker, report, seen>>

VARIABLES
    indexed        \* the latest pass of index: the repository, the failures met, the store

VARIABLES
    session        \* a NewAgent call whose context was cancelled: what it met, did and returned

VARIABLES
    cfile,         \* the cache file two sessions share: whether it is there, its pieces
    sess,          \* per session: its position in NewAgent, its fingerprint, what it read
    saved          \* the CachedData values that saveCache calls wrote in full

VARIABLES
    sim            \* a store as index filled it and the scoring of a question against it

VARIABLES
    split          \* a call of splitIntoChunks: the text, the loop position, the chunks so far

\* The variables of the parts modelled step by step further down.
moreVars == <<split, sim, cfile, sess, saved>>

VARIABLES
    fingerprint    \* the latest GetRepoStateHash call: the repository it saw, its result

\* The variables the aggregator actions leave alone.
notAggVars == <<concVars, agentVars, ragVars, fingerprint, analyzeVars, indexed, session, moreVars>>

\* The variables the AddIssue steps leave alone.
notConcVars == <<aggVars, agentVars, ragVars, fingerprint, analyzeVars, indexed, session, moreVars>>

\* The variables the agent actions leave alone.
notAgentVars == <<aggVars, concVars, ragVars, fingerprint, analyzeVars, indexed, session, moreVars>>

\* The variables the retrieval leaves alone.
notRagVars == <<aggVars, concVars, agentVars, fingerprint, analyzeVars, indexed, session, moreVars>>

\* The variables the steps of Analyze leave alone.
notAnalyzeVars == <<aggVars, concVars, agentVars, ragVars, fingerprint, indexed, session, moreVars>>

\* The variables splitIntoChunks leaves alone.
notSplitVars == <<aggVars, concVars, agentVars, ragVars, fingerprint, analyzeVars, indexed, session, sim,
                 cfile, sess, saved>>

\* The variables the scoring of a store leaves alone.
notSimVars == <<aggVars, concVars, agentVars, ragVars, fingerprint, analyzeVars, indexed, session, split,
               cfile, sess, saved>>

\* The variables the two sessions leave alone.
notSessionsVars == <<aggVars, concVars, agentVars, ragVars, fingerprint, analyzeVars, indexed, session,
                    split, sim>>

vars == <<aggVars, concVars, agentVars, ragVars, fingerprint, analyzeVars, indexed, session, moreVars>>

getSeverityWeight(severity) ==
    CASE severity = Critical -> 4
      [] severity = Error    -> 3
      [] severity = Warning  -> 2
      [] severity = Info     -> 1
      [] severity = Hint     -> 0
      [] OTHER               -> -1

getTypeWeight(issueType) ==
    CASE issueType = "SECURITY"        -> 5
      [] issueType = "BUG"             -> 4
      [] issueType = "PERFORMANCE"     -> 3
      [] issueType = "MAINTAINABILITY" -> 2
      [] issueType = "DEPENDENCY"      -> 1
      [] issueType = "CODE_STYLE"      -> 0
      [] OTHER                         -> -1

\* "\n\n**AI Justification**: "
AIJustification ==
    <<10, 10, 42, 42, 65, 73, 32, 74, 117, 115, 116, 105, 102, 105, 99, 97,
      116, 105, 111, 110, 42, 42, 58, 32>>

\* The loop with the Unmarshal error ignored: an answer that is no JSON
\* object leaves the zero-valued fields, which are written to the issue.
ScoreIssue_IgnoresParseError(issue, resp) ==
    IF issue.Tool = "Gemini" THEN issue
    ELSE IF resp.kind \in {"ok", "unparseable"}
    THEN [issue EXCEPT !.Severity = resp.NewSeverity,
                       !.Description = @ \o AIJustification \o resp.Reason]
    ELSE issue

\* One iteration of scoreSeverityWithAI's loop. resp is the outcome of
\* GenerateContent and json.Unmarshal: "err" (the call failed), "unparseable"
\* (Unmarshal failed), "ok" (a JSON object; a field it lacks is "").
ScoreIssue(issue, resp) ==
    IF issue.Tool = "Gemini" THEN issue
    ELSE IF resp.kind = "ok"
    THEN [issue EXCEPT !.Severity = resp.NewSeverity,
                       !.Description = @ \o AIJustification \o resp.Reason]
    ELSE issue

scoreSeverityWithAI(issues, resps) ==
    [i \in 1..Len(issues) |-> ScoreIssue(issues[i], resps[i])]

\* A key that also tells severities apart: duplicates of different severity
\* would no longer meet.
IssueKey_WithSeverity(issue) ==
    issue.File \o <<58>> \o RuneString(issue.Line) \o <<58>> \o issue.Description
        \o <<58>> \o issue.Severity

\* key := issue.File + ":" + string(issue.Line) + ":" + issue.Description
IssueKey(issue) ==
    issue.File \o <<58>> \o RuneString(issue.Line) \o <<58>> \o issue.Description

\* The first loop with >= for >: on equal weight the later issue replaces
\* the earlier one.
RECURSIVE IssueMap_KeepLast(_, _)
IssueMap_KeepLast(issues, n) ==
    IF n = 0 THEN [k \in {} |-> 0]
    ELSE LET m == IssueMap_KeepLast(issues, n - 1)
             issue == issues[n]
             key == IssueKey(issue)
         IN  IF key \in DOMAIN m
             THEN IF getSeverityWeight(issue.Severity) >= getSeverityWeight(m[key].Severity)
                  THEN [m EXCEPT ![key] = issue]
                  ELSE m
             ELSE [k \in DOMAIN m \cup {key} |-> IF k = key THEN issue ELSE m[k]]

\* The first loop of removeDuplicates over issues[1..n]: the map key -> issue.
RECURSIVE IssueMap(_, _)
IssueMap(issues, n) ==
    IF n = 0 THEN [k \in {} |-> 0]
    ELSE LET m == IssueMap(issues, n - 1)
             issue == issues[n]
             key == IssueKey(issue)
         IN  IF key \in DOMAIN m
             THEN IF getSeverityWeight(issue.Severity) > getSeverityWeight(m[key].Severity)
                  THEN [m EXCEPT ![key] = issue]
                  ELSE m
             ELSE [k \in DOMAIN m \cup {key} |-> IF k = key THEN issue ELSE m[k]]

\* The orders in which Go may range over a map with these keys.
MapOrders(keys) ==
    {o \in [1..Cardinality(keys) -> keys] : \A k \in keys : \E i \in DOMAIN o : o[i] = k}

\* A removeDuplicates that keeps the summary of the list it was given.
removeDuplicates_RawCounts(issues, order) ==
    LET m == IssueMap(issues, Len(issues)) IN
    [Issues |-> AddAll(NewAnalysisResult, [i \in 1..Len(order) |-> m[order[i]]]).Issues,
     Summary |-> AddAll(NewAnalysisResult, issues).Summary]

\* removeDuplicates: the kept issues are re-inserted into a fresh result in
\* the order the range over the map yields them.
removeDuplicates(issues, order) ==
    LET m == IssueMap(issues, Len(issues)) IN
    AddAll(NewAnalysisResult, [i \in 1..Len(order) |-> m[order[i]]])

\* A less function that puts the lower severity weight first.
Less_Ascending(a, b) ==
    LET sevA == getSeverityWeight(a.Severity)
        sevB == getSeverityWeight(b.Severity)
        typeA == getTypeWeight(a.Type)
        typeB == getTypeWeight(b.Type)
    IN  IF sevA # sevB THEN sevA < sevB
        ELSE IF typeA # typeB THEN typeA > typeB
        ELSE IF a.File # b.File THEN StrLess(a.File, b.File)
        ELSE a.Line < b.Line

\* The less function of prioritizeIssues.
Less(a, b) ==
    LET sevA == getSeverityWeight(a.Severity)
        sevB == getSeverityWeight(b.Severity)
        typeA == getTypeWeight(a.Type)
        typeB == getTypeWeight(b.Type)
    IN  IF sevA # sevB THEN sevA > sevB
        ELSE IF typeA # typeB THEN typeA > typeB
        ELSE IF a.File # b.File THEN StrLess(a.File, b.File)
        ELSE a.Line < b.Line

\* sort.Slice on at most 12 elements is an insertion sort: each element moves
\* left while it is less than its left neighbour.
RECURSIVE InsertSorted(_, _)
InsertSorted(s, x) ==
    IF s = <<>> THEN <<x>>
    ELSE IF Less(x, s[Len(s)])
    THEN Append(InsertSorted(SubSeq(s, 1, Len(s) - 1), x), s[Len(s)])
    ELSE Append(s, x)

RECURSIVE SortSlice(_, _)
SortSlice(s, n) ==
    IF n = 0 THEN <<>> ELSE InsertSorted(SortSlice(s, n - 1), s[n])

\* prioritizeIssues sorts result.Issues in place and touches nothing else.
prioritizeIssues(r) == [r EXCEPT !.Issues = SortSlice(@, Len(@))]

severityToValue(severity) ==
    LET s == ToLower(severity) IN
    CASE s = <<99, 114, 105, 116, 105, 99, 97, 108>> -> 4   \* "critical"
      [] s = <<104, 105, 103, 104>>                  -> 3   \* "high"
      [] s = <<109, 101, 100, 105, 117, 109>>        -> 2   \* "medium"
      [] s = <<108, 111, 119>>                       -> 1   \* "low"
      [] s = <<105, 110, 102, 111>>                  -> 0   \* "info"
      [] OTHER                                       -> 0

FilterIssuesByThreshold(r, t) ==
    SelectSeq(r.Issues, LAMBDA issue : severityToValue(issue.Severity) >= severityToValue(t))

\* ---- inputs

Msg   == <<109, 115, 103>>      \* "msg"
Dup   == <<100, 117, 112>>      \* "dup"
Aux   == <<97, 117, 120>>       \* "aux"
Note  == <<78, 79, 84, 69>>     \* "NOTE", no severity of the models package

Issue(file, line, description, severity, type, tool) ==
    [File |-> file, Line |-> line, Description |-> description,
     Severity |-> severity, Type |-> type, Tool |-> tool, Language |-> ""]

\* Issues that meet at a dedup key: one file and description, a line that is
\* a code point and two that are not, two severities, two tools.
PoolDedup ==
    {Issue(FileA, l, Msg, s, "BUG", tool) :
        l \in {10, 55296, 55297}, s \in {Critical, Warning},
        tool \in {"golangci-lint", "Gemini"}}

\* Issues that differ in each sort key in turn, and three of severities
\* INFO, CRITICAL and ERROR at one file and line.
PoolOrder ==
    {Issue(f, l, x[1], Error, x[2], "golangci-lint") :
        f \in {FileA, FileB}, l \in {10, 20},
        x \in {<<Msg, "BUG">>, <<Dup, "SECURITY">>}}
    \cup {Issue(FileA, 10, Aux, Critical, "TEST", "golangci-lint"),
          Issue(FileA, 10, Dup, Info, "TEST", "golangci-lint")}

\* Issues of every severity, with files, types and tools that do not coincide.
PoolCount ==
    {Issue(FileA, 10, Msg, s, "BUG", "golangci-lint") : s \in KnownSeverities \cup {Note}}
    \cup {Issue(x[1], x[2], Msg, s, x[3], "Gemini") :
            s \in {Critical, Info},
            x \in {<<FileA, 20, "SECURITY">>, <<FileB, 10, "BUG">>}}

\* Issues of every severity at one dedup key, and of three at another.
PoolFilter ==
    {Issue(FileA, 10, Msg, s, "BUG", "golangci-lint") : s \in KnownSeverities \cup {Note}}
    \cup {Issue(FileA, 20, Msg, s, "BUG", "golangci-lint") : s \in {Critical, Warning, Info}}

\* Issues of three descriptions at one file, line and type, each of two
\* severities.
PoolTies ==
    {Issue(FileA, 10, d, s, "BUG", "golangci-lint") : d \in {Msg, Dup, Aux}, s \in {Error, Warning}}

\* "warning", "error", "critical", "info"
Thresholds ==
    {<<119, 97, 114, 110, 105, 110, 103>>, <<101, 114, 114, 111, 114>>,
     <<99, 114, 105, 116, 105, 99, 97, 108>>, <<105, 110, 102, 111>>}

NoCall == [kind |-> "none", NewSeverity |-> <<>>, Reason |-> <<>>]

\* What the completion service can answer for one scoring prompt.
Responses ==
    {[kind |-> "err", NewSeverity |-> <<>>, Reason |-> <<>>],
     [kind |-> "unparseable", NewSeverity |-> <<>>, Reason |-> <<>>],
     [kind |-> "ok", NewSeverity |-> Critical, Reason |-> <<114, 49>>],   \* "r1"
     [kind |-> "ok", NewSeverity |-> <<>>, Reason |-> <<114, 50>>]}       \* "r2"

\* One response per issue that gets a scoring call, NoCall for the others.
ResponseVectors(issues, enabled) ==
    {v \in [1..Len(issues) -> Responses \cup {NoCall}] :
        \A i \in 1..Len(issues) :
            (v[i] = NoCall) <=> (~enabled \/ issues[i].Tool = "Gemini")}

\* ---- actions

InitAgg ==
    /\ result = NewAnalysisResult
    /\ aiEnabled \in BOOLEAN
    /\ rawIssues = <<>>
    /\ responses = <<>>
    /\ pc = "collect"
    /\ threshold = <<>>
    /\ filtered = <<>>

\* The aggregator's part of the state when a specification leaves it idle.
IdleAgg ==
    /\ result = NewAnalysisResult
    /\ aiEnabled = FALSE
    /\ rawIssues = <<>>
    /\ responses = <<>>
    /\ pc = "idle"
    /\ threshold = <<>>
    /\ filtered = <<>>

\* An analyzer's finding is added to the result.
Collect(issue) ==
    /\ pc = "collect"
    /\ Len(result.Issues) < (IF aiEnabled THEN MaxScored ELSE MaxIssues)
    /\ result' = AddIssue(result, issue)
    /\ UNCHANGED <<aiEnabled, rawIssues, responses, pc, threshold, filtered>>
    /\ UNCHANGED notAggVars

\* ResultAggregator.AggregateResults.
AggregateResults ==
    /\ pc = "collect"
    /\ \E resps \in ResponseVectors(result.Issues, aiEnabled) :
          LET scored == IF aiEnabled
                        THEN scoreSeverityWithAI(result.Issues, resps)
                        ELSE result.Issues
          IN  \E order \in MapOrders(DOMAIN IssueMap(scored, Len(scored))) :
                 /\ result' = prioritizeIssues(removeDuplicates(scored, order))
                 /\ responses' = resps
    /\ rawIssues' = result.Issues
    /\ pc' = "aggregated"
    /\ UNCHANGED <<aiEnabled, threshold, filtered>>
    /\ UNCHANGED notAggVars

\* ResultAggregator.FilterIssuesByThreshold on the aggregated result.
FilterByThreshold(t) ==
    /\ pc = "aggregated"
    /\ filtered' = FilterIssuesByThreshold(result, t)
    /\ threshold' = t
    /\ pc' = "filtered"
    /\ UNCHANGED <<result, aiEnabled, rawIssues, responses>>
    /\ UNCHANGED notAggVars

NextAgg(pool) ==
    \/ \E issue \in pool : Collect(issue)
    \/ AggregateResults

NextDedup == NextAgg(PoolDedup)
NextOrder == NextAgg(PoolOrder)
NextCount == NextAgg(PoolCount)
NextTies == NextAgg(PoolTies)
NextFilter ==
    \/ \E issue \in PoolFilter : Collect(issue)
    \/ AggregateResults
    \/ \E t \in Thresholds : FilterByThreshold(t)

\* ------------------------------------------ concurrent AddIssue callers

\* The goroutines of Analyze that add issues: the two language analyzers it
\* has (every other language returns before it adds anything) and the AI one.
Goroutines == {"go", "python", "ai"}

\* What the analyzers running side by side report.
PoolConc ==
    {Issue(FileA, 10, Msg, Critical, "BUG", "golangci-lint"),
     Issue(FileB, 10, Msg, Warning, "SECURITY", "Gemini")}

\* The issue lists one goroutine may have to add.
IssueLists == UNION {[1..n -> PoolConc] : n \in 0..MaxAdds}

NoIssue == Issue(<<>>, 0, <<>>, <<>>, "", "")

InitConc ==
    /\ shared = NewAnalysisResult
    /\ mutex = "free"
    /\ given \in [Goroutines -> IssueLists]
    /\ todo = given
    /\ gpc = [g \in Goroutines |-> "idle"]
    /\ cur = [g \in Goroutines |-> NoIssue]
    /\ tmp = [g \in Goroutines |-> NewAnalysisResult]

IdleConc ==
    /\ shared = NewAnalysisResult
    /\ mutex = "free"
    /\ given = <<>>
    /\ todo = <<>>
    /\ gpc = <<>>
    /\ cur = <<>>
    /\ tmp = <<>>

\* A goroutine calls AddIssue with its next issue; the language is set on the
\* argument before the lock is taken.
Call(g) ==
    /\ gpc[g] = "idle"
    /\ todo[g] # <<>>
    /\ cur' = [cur EXCEPT ![g] = WithLanguage(Head(todo[g]))]
    /\ todo' = [todo EXCEPT ![g] = Tail(@)]
    /\ gpc' = [gpc EXCEPT ![g] = "lock"]
    /\ UNCHANGED <<shared, mutex, given, tmp>>
    /\ UNCHANGED notConcVars

\* A lock that does not wait for the holder to release it.
Lock_NoWait(g) ==
    /\ gpc[g] = "lock"
    /\ mutex' = g
    /\ gpc' = [gpc EXCEPT ![g] = "append"]
    /\ UNCHANGED <<shared, todo, given, cur, tmp>>
    /\ UNCHANGED notConcVars

\* r.mutex.Lock(): blocks while another goroutine holds the mutex.
Lock(g) ==
    /\ gpc[g] = "lock"
    /\ mutex = "free"
    /\ mutex' = g
    /\ gpc' = [gpc EXCEPT ![g] = "append"]
    /\ UNCHANGED <<shared, todo, given, cur, tmp>>
    /\ UNCHANGED notConcVars

\* append(r.Issues, issue) reads the slice ...
ReadIssues(g) ==
    /\ gpc[g] = "append"
    /\ tmp' = [tmp EXCEPT ![g] = shared]
    /\ gpc' = [gpc EXCEPT ![g] = "store"]
    /\ UNCHANGED <<shared, mutex, todo, given, cur>>
    /\ UNCHANGED notConcVars

\* ... and r.Issues = stores the slice with the issue appended.
StoreIssues(g) ==
    /\ gpc[g] = "store"
    /\ shared' = [shared EXCEPT !.Issues = Append(tmp[g].Issues, cur[g])]
    /\ gpc' = [gpc EXCEPT ![g] = "count"]
    /\ UNCHANGED <<mutex, todo, given, cur, tmp>>
    /\ UNCHANGED notConcVars

\* The increments read the counters ...
ReadCounts(g) ==
    /\ gpc[g] = "count"
    /\ tmp' = [tmp EXCEPT ![g] = shared]
    /\ gpc' = [gpc EXCEPT ![g] = "write"]
    /\ UNCHANGED <<shared, mutex, todo, given, cur>>
    /\ UNCHANGED notConcVars

\* ... and write them back one higher.
WriteCounts(g) ==
    /\ gpc[g] = "write"
    /\ shared' = [shared EXCEPT
                    !.Summary = CountMaps(CountSeverity(tmp[g].Summary, cur[g].Severity), cur[g])]
    /\ gpc' = [gpc EXCEPT ![g] = "unlock"]
    /\ UNCHANGED <<mutex, todo, given, cur, tmp>>
    /\ UNCHANGED notConcVars

\* The deferred r.mutex.Unlock() as AddIssue returns.
Unlock(g) ==
    /\ gpc[g] = "unlock"
    /\ mutex' = "free"
    /\ gpc' = [gpc EXCEPT ![g] = "idle"]
    /\ UNCHANGED <<shared, todo, given, cur, tmp>>
    /\ UNCHANGED notConcVars

NextConc ==
    \E g \in Goroutines :
        \/ Call(g)
        \/ Lock(g)
        \/ ReadIssues(g)
        \/ StoreIssues(g)
        \/ ReadCounts(g)
        \/ WriteCounts(g)
        \/ Unlock(g)

\* ---------------------------------------------------------- the Q&A agent

chunkSize == 512
chunkOverlap == 50

GitHead == <<46, 103, 105, 116, 47, 72, 69, 65, 68>>   \* ".git/HEAD"
Logo    == <<108, 111, 103, 111, 46, 112, 110, 103>>   \* "logo.png"
DSStore == <<46, 68, 83, 95, 83, 116, 111, 114, 101>>  \* ".DS_Store"
GitSep  == <<46, 103, 105, 116, 47>>                   \* ".git" + separator

\* The extensions isTextFile takes for binary files.
BinaryExts ==
    {<<46, 112, 110, 103>>, <<46, 106, 112, 103>>, <<46, 106, 112, 101, 103>>,
     <<46, 103, 105, 102>>, <<46, 122, 105, 112>>, <<46, 116, 97, 114>>,
     <<46, 103, 122>>, <<46, 101, 120, 101>>, <<46, 98, 105, 110>>,
     <<46, 115, 111>>, <<46, 100, 108, 108>>, <<46, 112, 100, 102>>}

\* strings.Contains
Contains(s, sub) ==
    \E i \in 1..(Len(s) - Len(sub) + 1) : SubSeq(s, i, i + Len(sub) - 1) = sub

isTextFile(path) ==
    /\ Base(path) # DSStore
    /\ ToLower(Ext(path)) \notin BinaryExts
    /\ ~Contains(path, GitSep)

\* The text of a file is known by an identity and its length in runes; a
\* piece of it, string(textRunes[i:end]), by the text and the two offsets.
Text(rev) == [id |-> rev, len |-> IF rev = 1 THEN 100 ELSE 600]

Slice(text, i, end) == [text |-> text.id, from |-> i, to |-> end]

\* The loop of splitIntoChunks from offset i on.
RECURSIVE ChunksFrom(_, _)
ChunksFrom(text, i) ==
    IF i >= text.len THEN <<>>
    ELSE LET end == IF i + chunkSize > text.len THEN text.len ELSE i + chunkSize
         IN  <<Slice(text, i, end)>> \o ChunksFrom(text, i + (chunkSize - chunkOverlap))

splitIntoChunks(text) ==
    IF text.len = 0 THEN <<>> ELSE ChunksFrom(text, 0)

\* The paths a repository may hold, seen from its root.
Paths == {GitHead, FileA, FileB, Logo}

\* The paths isTextFile accepts.
TextFiles == {p \in Paths : isTextFile(p)}

\* The paths inside the .git folder.
GitFiles == {p \in Paths : Contains(p, GitSep)}

\* The chunks of each text a file may hold.
ChunksOf == [rev \in {1, 2} |-> splitIntoChunks(Text(rev))]

\* The repository is walked from "."; its only directory is .git, so that
\* filepath.Walk's order, lexical within each directory, is the order of the
\* path strings.
RECURSIVE SortPaths(_)
SortPaths(S) ==
    IF S = {} THEN <<>>
    ELSE LET m == CHOOSE p \in S : \A q \in S \ {p} : StrLess(p, q)
         IN  <<m>> \o SortPaths(S \ {m})

WalkOrder == SortPaths(Paths)

\* The files filepath.Walk hands to its callback, in its order.
WalkEntries(r) == SelectSeq(WalkOrder, LAMBDA p : p \in DOMAIN r.files)

\* ---- the repository state fingerprint (utils.GetRepoStateHash)

\* A fingerprint is modelled by what was hashed: the commit git rev-parse
\* printed, or the path and modification time of each file walked.
NoHash == [kind |-> "", commit |-> "", files |-> <<>>]

RECURSIVE HashedFiles(_, _, _)
HashedFiles(r, entries, k) ==
    IF k > Len(entries) THEN <<>>
    ELSE IF entries[k] \in GitFiles THEN HashedFiles(r, entries, k + 1)
    ELSE <<[path |-> entries[k], mtime |-> r.files[entries[k]].mtime]>>
             \o HashedFiles(r, entries, k + 1)

\* env.gitOk: git rev-parse HEAD succeeds; env.walkOk: the walk does.
GetRepoStateHash(r, env) ==
    IF r.git /\ env.gitOk
    THEN [err |-> FALSE, hash |-> [kind |-> "commit", commit |-> r.head, files |-> <<>>]]
    ELSE IF ~env.walkOk
    THEN [err |-> TRUE, hash |-> NoHash]
    ELSE [err |-> FALSE,
          hash |-> [kind |-> "sha256", commit |-> "",
                    files |-> HashedFiles(r, WalkEntries(r), 1)]]

\* What may happen to GetRepoStateHash in repository r: without .git the
\* git command is not run.
HashEnvs(r) ==
    {env \in [gitOk : BOOLEAN, walkOk : BOOLEAN] :
        /\ env.gitOk => r.git /\ env.walkOk
        /\ ~r.git => ~env.gitOk}

\* ---- indexing (Agent.index)

\* What GenerateEmbeddings returns for a chunk: an error or a vector.
EmbedError == [err |-> TRUE, values |-> <<>>]
EmbedVector == [err |-> FALSE, values |-> <<1, 0>>]
EmbedAnswers == {EmbedError, EmbedVector}

\* The loop with break for continue: the first failed embedding ends the
\* file.
RECURSIVE EmbedChunks_StopsAtFailure(_, _, _, _)
EmbedChunks_StopsAtFailure(relPath, chunks, k, answers) ==
    IF k > Len(chunks) THEN <<>>
    ELSE LET a == answers[<<relPath, k>>]
         IN  IF a.err THEN <<>>
             ELSE <<[Path |-> relPath, Content |-> chunks[k], Embedding |-> a.values]>>
                      \o EmbedChunks_StopsAtFailure(relPath, chunks, k + 1, answers)

\* The loop over the chunks of one file: a chunk whose embedding fails is
\* skipped, every other is appended to the store.
RECURSIVE EmbedChunks(_, _, _, _)
EmbedChunks(relPath, chunks, k, answers) ==
    IF k > Len(chunks) THEN <<>>
    ELSE LET rest == EmbedChunks(relPath, chunks, k + 1, answers)
             a == answers[<<relPath, k>>]
         IN  IF a.err THEN rest
             ELSE <<[Path |-> relPath, Content |-> chunks[k], Embedding |-> a.values]>>
                      \o rest

\* The walk from its k-th file on.  env.walkErrAt: the entry at which the
\* callback is handed an error (0: none; one past the last file: an error
\* met after it); env.readOk: whether os.ReadFile succeeds; env.embed: the
\* embedding service's answer for each chunk.  a counts the calls made.
RECURSIVE WalkFrom(_, _, _, _, _)
WalkFrom(r, entries, env, k, a) ==
    IF env.walkErrAt = k THEN [a EXCEPT !.err = TRUE]
    ELSE IF k > Len(entries) THEN a
    ELSE LET path == entries[k] IN
         IF path \notin TextFiles THEN WalkFrom(r, entries, env, k + 1, a)
         ELSE IF ~env.readOk[path]
         THEN WalkFrom(r, entries, env, k + 1, [a EXCEPT !.fileReads = @ + 1])
         ELSE LET chunks == ChunksOf[r.files[path].rev] IN
              WalkFrom(r, entries, env, k + 1,
                       [a EXCEPT !.fileReads = @ + 1,
                                 !.embedCalls = @ + Len(chunks),
                                 !.vectorStore = @ \o EmbedChunks(path, chunks, 1, env.embed)])

index(r, env) ==
    WalkFrom(r, WalkEntries(r), env, 1,
             [err |-> FALSE, vectorStore |-> <<>>, embedCalls |-> 0, fileReads |-> 0])

TextPaths(r) == DOMAIN r.files \cap TextFiles

\* The chunks an untroubled index pass asks embeddings for.
Slots(r) ==
    UNION {{<<p, k>> : k \in 1..Len(ChunksOf[r.files[p].rev])} : p \in TextPaths(r)}

\* What may happen to an index pass of repository r: chunks that get no
\* embedding, or else files that cannot be read, or else an error in the walk.
IndexEnvs(r) ==
    LET paths == TextPaths(r)
        slots == Slots(r)
        entries == WalkEntries(r)
    IN  {[walkErrAt |-> 0, readOk |-> [p \in paths |-> TRUE], embed |-> e] :
            e \in [slots -> EmbedAnswers]}
        \cup {[walkErrAt |-> 0, readOk |-> ok, embed |-> [x \in slots |-> EmbedVector]] :
                ok \in [paths -> BOOLEAN]}
        \cup {[walkErrAt |-> k, readOk |-> [p \in paths |-> TRUE],
               embed |-> [x \in slots |-> EmbedVector]] : k \in 1..(Len(entries) + 1)}

\* ---- the cache file (saveCache, loadCache)

\* encoding/gob sends a struct as its non-zero fields: fields names the
\* fields sent, the others hold nothing.
GobEncodeChunk_NoEmbedding(c) ==
    [fields |-> {"Path", "Content"}, Path |-> c.Path, Content |-> c.Content, Embedding |-> <<>>]

GobEncodeChunk(c) ==
    [fields |-> {f \in {"Path", "Content", "Embedding"} :
                    \/ f = "Path" /\ c.Path # <<>>
                    \/ f = "Content" /\ c.Content.to > c.Content.from
                    \/ f = "Embedding" /\ c.Embedding # <<>>},
     Path |-> c.Path, Content |-> c.Content, Embedding |-> c.Embedding]

NoContent == Slice(Text(1), 0, 0)

GobDecodeChunk(w) ==
    [Path |-> IF "Path" \in w.fields THEN w.Path ELSE <<>>,
     Content |-> IF "Content" \in w.fields THEN w.Content ELSE NoContent,
     Embedding |-> IF "Embedding" \in w.fields THEN w.Embedding ELSE <<>>]

\* The stream an Encoder writes for one CachedData: the type definitions,
\* then the value.
TypeDefs == [kind |-> "types", fields |-> {}, CommitHash |-> NoHash, VectorStore |-> <<>>]

GobValue(data) ==
    [kind |-> "value",
     fields |-> {f \in {"CommitHash", "VectorStore"} :
                    \/ f = "CommitHash" /\ data.CommitHash # NoHash
                    \/ f = "VectorStore" /\ data.VectorStore # <<>>},
     CommitHash |-> data.CommitHash,
     VectorStore |-> [i \in 1..Len(data.VectorStore) |-> GobEncodeChunk(data.VectorStore[i])]]

\* A value message that was cut short.
Torn == [kind |-> "torn", fields |-> {}, CommitHash |-> NoHash, VectorStore |-> <<>>]

GobEncode(data) == <<TypeDefs, GobValue(data)>>

NoData == [CommitHash |-> NoHash, VectorStore |-> <<>>]

\* Decoder.Decode: the stream must hold the type definitions and then a whole
\* value; the fields that were not sent keep their zero value.
GobDecode(bytes) ==
    IF Len(bytes) >= 2 /\ bytes[1].kind = "types" /\ bytes[2].kind = "value"
    THEN LET v == bytes[2] IN
         [err |-> FALSE,
          data |-> [CommitHash |-> IF "CommitHash" \in v.fields THEN v.CommitHash ELSE NoHash,
                    VectorStore |-> IF "VectorStore" \in v.fields
                                    THEN [i \in 1..Len(v.VectorStore) |-> GobDecodeChunk(v.VectorStore[i])]
                                    ELSE <<>>]]
    ELSE [err |-> TRUE, data |-> NoData]

Absent == [exists |-> FALSE, bytes |-> <<>>]

\* What may happen to a save: os.Create fails, Encode fails after it wrote a
\* part, or all is written.
SaveOutcomes == {"create fails", "encode fails", "ok"}

saveCache(file, data, outcome) ==
    CASE outcome = "create fails" -> [err |-> TRUE, file |-> file]
      [] outcome = "encode fails" ->
            [err |-> TRUE, file |-> [exists |-> TRUE, bytes |-> <<TypeDefs, Torn>>]]
      [] OTHER -> [err |-> FALSE, file |-> [exists |-> TRUE, bytes |-> GobEncode(data)]]

\* Whether os.Open may succeed: not on a file that is not there.
OpenOutcomes(file) == IF file.exists THEN BOOLEAN ELSE {FALSE}

loadCache(file, openOk) ==
    IF ~(file.exists /\ openOk) THEN [err |-> TRUE, data |-> NoData]
    ELSE GobDecode(file.bytes)

\* ---- NewAgent

Commits == {"c1", "c2"}
Revs == DOMAIN ChunksOf
MTimes == {1, 2}

StateErr == "could not determine repository state"
PathErr == "could not determine cache path"
IndexErr == "failed to index repository"

\* The messages of a cache file without the chunks they carry.
Header(file) ==
    [file EXCEPT !.bytes = [i \in 1..Len(file.bytes) |-> [file.bytes[i] EXCEPT !.VectorStore = <<>>]]]

\* No call yet.
NotCalled ==
    [made |-> FALSE, err |-> "", store |-> <<>>, hash |-> NoHash,
     pathOk |-> FALSE, openOk |-> FALSE, found |-> Absent, again |-> FALSE,
     hit |-> FALSE, indexed |-> FALSE, embedCalls |-> 0, fileReads |-> 0, saved |-> "no"]

\* No call wrote what the cache file holds.
NoFirst == [made |-> FALSE, hash |-> NoHash, store |-> <<>>]

InitAgent ==
    /\ \E git \in BOOLEAN :
          repo = [git |-> git, head |-> IF git THEN "c1" ELSE "",
                  files |-> [p \in (IF git THEN {GitHead} ELSE {}) \cup {FileA, Logo} |->
                                [rev |-> 1, mtime |-> 1]]]
    /\ cacheFile = Absent
    /\ call = NotCalled
    /\ first = NoFirst

IdleAgent ==
    /\ repo = [git |-> FALSE, head |-> "", files |-> <<>>]
    /\ cacheFile = Absent
    /\ call = NotCalled
    /\ first = NoFirst

\* The test of line 71: the record loaded and it is of this repository state.
CacheHit_AnyRecord(cached, stateHash) ==
    ~cached.err

CacheHit(cached, stateHash) ==
    ~cached.err /\ cached.data.CommitHash = stateHash

\* NewAgent returns: c is what the call met, did and returned.
Return(c) ==
    /\ call' = c
    /\ UNCHANGED <<cacheFile, first>>

\* One call of NewAgent on the repository path, from entry to return.
NewAgent ==
    /\ \E henv \in HashEnvs(repo) :
          LET state == GetRepoStateHash(repo, henv)
              entered == [NotCalled EXCEPT !.made = TRUE, !.found = Header(cacheFile),
                                           !.hash = state.hash,
                                           !.again = first.made /\ first.hash = state.hash]
          IN
          IF state.err
          THEN Return([entered EXCEPT !.err = StateErr, !.again = FALSE])
          ELSE \E pathOk \in BOOLEAN :
               IF ~pathOk
               THEN Return([entered EXCEPT !.err = PathErr])
               ELSE \E openOk \in OpenOutcomes(cacheFile) :
                    LET cached == loadCache(cacheFile, openOk)
                        tried == [entered EXCEPT !.pathOk = TRUE, !.openOk = openOk]
                    IN
                    IF CacheHit(cached, state.hash)
                    THEN Return([tried EXCEPT !.hit = TRUE, !.store = cached.data.VectorStore])
                    ELSE \E ienv \in IndexEnvs(repo) :
                         LET ix == index(repo, ienv)
                             walked == [tried EXCEPT !.indexed = TRUE,
                                                     !.embedCalls = ix.embedCalls,
                                                     !.fileReads = ix.fileReads]
                         IN
                         IF ix.err
                         THEN Return([walked EXCEPT !.err = IndexErr])
                         ELSE \E outcome \in SaveOutcomes :
                              LET save == saveCache(cacheFile,
                                                    [CommitHash |-> state.hash,
                                                     VectorStore |-> ix.vectorStore],
                                                    outcome)
                              IN  /\ call' = [walked EXCEPT
                                                !.store = ix.vectorStore,
                                                !.saved = IF save.err THEN "failed" ELSE "ok"]
                                  /\ cacheFile' = save.file
                                  /\ first' = IF ~save.err
                                              THEN [made |-> TRUE, hash |-> state.hash,
                                                    store |-> ix.vectorStore]
                                              ELSE IF save.file = cacheFile THEN first
                                              ELSE NoFirst
    /\ UNCHANGED repo
    /\ UNCHANGED notAgentVars

\* A file of the work tree is edited: its text and its modification time
\* are other than before.
WriteFile(path, rev, mtime) ==
    /\ path \in DOMAIN repo.files \ GitFiles
    /\ repo.files[path].rev # rev
    /\ repo.files[path].mtime # mtime
    /\ repo' = [repo EXCEPT !.files[path] = [rev |-> rev, mtime |-> mtime]]
    /\ UNCHANGED <<cacheFile, call, first>>
    /\ UNCHANGED notAgentVars

\* HEAD of a git repository moves to another commit.
Commit(head) ==
    /\ repo.git
    /\ repo.head # head
    /\ repo' = [repo EXCEPT !.head = head]
    /\ UNCHANGED <<cacheFile, call, first>>
    /\ UNCHANGED notAgentVars

NextAgent ==
    \/ NewAgent
    \/ \E rev \in Revs, mtime \in MTimes : WriteFile(FileA, rev, mtime)
    \/ \E head \in Commits : Commit(head)

\* ------------------------------------------------------------- retrieval

topK == 5

\* A similarity is kept as the fraction the code divides out: on the integer
\* vectors with whole norms used here float64 arithmetic is exact, and two
\* fractions compare as their quotients do.
Fraction(num, den) == [num |-> num, den |-> den]

Greater(x, y) == x.num * y.den > y.num * x.den

\* math.Sqrt on a perfect square.
Sqrt(n) == CHOOSE r \in 0..n : r * r = n

\* The sum of f[1] .. f[n].
RECURSIVE SumTo(_, _)
SumTo(f, n) == IF n = 0 THEN 0 ELSE f[n] + SumTo(f, n - 1)

\* The loop runs over the indices of a and reads b at each of them.
cosineSimilarity(a, b) ==
    LET dotProduct == SumTo([i \in 1..Len(a) |-> a[i] * b[i]], Len(a))
        normA == SumTo([i \in 1..Len(a) |-> a[i] * a[i]], Len(a))
        normB == SumTo([i \in 1..Len(a) |-> b[i] * b[i]], Len(a))
    IN  IF normA = 0 \/ normB = 0 THEN Fraction(0, 1)
        ELSE Fraction(dotProduct, Sqrt(normA) * Sqrt(normB))

\* ---- sort.Slice of the Go toolchain the module names (go 1.24): positions
\* count from 0 as in the Go code, data[i] is d[i + 1].

\* The less function retrieveChunks hands to sort.Slice.
ScoreLess(d, i, j) == Greater(d[i + 1].Score, d[j + 1].Score)

Swap(d, i, j) == [d EXCEPT ![i + 1] = d[j + 1], ![j + 1] = d[i + 1]]

\* The inner loop of insertionSort_func: data[j] sinks while it is less than
\* the element before it.
RECURSIVE SinkFrom(_, _, _)
SinkFrom(d, a, j) ==
    IF j > a /\ ScoreLess(d, j, j - 1) THEN SinkFrom(Swap(d, j, j - 1), a, j - 1) ELSE d

RECURSIVE InsertionFrom(_, _, _, _)
InsertionFrom(d, a, b, i) ==
    IF i >= b THEN d ELSE InsertionFrom(SinkFrom(d, a, i), a, b, i + 1)

insertionSort_func(d, a, b) == InsertionFrom(d, a, b, a + 1)

\* order2_func: the two positions in order, and the swaps counted so far.
order2_func(d, a, b, swaps) ==
    IF ScoreLess(d, b, a) THEN <<b, a, swaps + 1>> ELSE <<a, b, swaps>>

\* median_func: the position of the median of three, and the swaps counted.
median_func(d, a, b, c) ==
    LET s1 == order2_func(d, a, b, 0)
        s2 == order2_func(d, s1[2], c, s1[3])
        s3 == order2_func(d, s1[1], s2[1], s2[3])
    IN  <<s3[2], s3[3]>>

\* choosePivot_func for fewer than 50 elements (no Tukey ninther): with fewer
\* than 8 the middle position, else the median of three; at most 3 swaps are
\* counted, so the hint is never the decreasing one.
choosePivot_func(d, a, b) ==
    LET l == b - a
        i == a + (l \div 4) * 1
        j == a + (l \div 4) * 2
        k == a + (l \div 4) * 3
        m == IF l >= 8 THEN median_func(d, i, j, k) ELSE <<j, 0>>
    IN  [pivot |-> m[1], hint |-> IF m[2] = 0 THEN "increasing" ELSE "unknown"]

\* partialInsertionSort_func for fewer than 50 elements: true when the range
\* is in order already, false at the first element out of order.
partialInsertionSort_func(d, a, b) ==
    \A i \in (a + 1)..(b - 1) : ~ScoreLess(d, i, i - 1)

\* The two scans of partition_func: i moves right over elements less than
\* the pivot at a, j moves left over the others.
RECURSIVE ScanRight(_, _, _, _)
ScanRight(d, a, i, j) ==
    IF i <= j /\ ScoreLess(d, i, a) THEN ScanRight(d, a, i + 1, j) ELSE i

RECURSIVE ScanLeft(_, _, _, _)
ScanLeft(d, a, i, j) ==
    IF i <= j /\ ~ScoreLess(d, j, a) THEN ScanLeft(d, a, i, j - 1) ELSE j

\* The loop of partition_func after its first swap.
RECURSIVE PartitionLoop(_, _, _, _)
PartitionLoop(d, a, i0, j0) ==
    LET i == ScanRight(d, a, i0, j0)
        j == ScanLeft(d, a, i, j0)
    IN  IF i > j THEN [data |-> Swap(d, j, a), mid |-> j]
        ELSE PartitionLoop(Swap(d, i, j), a, i + 1, j - 1)

partition_func(d0, a, b, pivot) ==
    LET d == Swap(d0, a, pivot)
        i == ScanRight(d, a, a + 1, b - 1)
        j == ScanLeft(d, a, i, b - 1)
    IN  IF i > j THEN [data |-> Swap(d, j, a), mid |-> j]
        ELSE PartitionLoop(Swap(d, i, j), a, i + 1, j - 1)

\* The longest slice pdqsort_func is modelled for: one partition of it leaves
\* two ranges of at most maxInsertion elements, which are insertion-sorted,
\* so that breakPatterns_func, partitionEqual_func and heapSort_func are not
\* entered.
maxInsertion == 12
LongestSorted == maxInsertion + 1

pdqsort_func(d, a, b) ==
    IF b - a <= maxInsertion THEN insertionSort_func(d, a, b)
    ELSE LET p == choosePivot_func(d, a, b) IN
         IF p.hint = "increasing" /\ partialInsertionSort_func(d, a, b) THEN d
         ELSE LET part == partition_func(d, a, b, p.pivot)
                  left == insertionSort_func(part.data, a, part.mid)
              IN  insertionSort_func(left, part.mid + 1, b)

SortSliceByScore(d) == pdqsort_func(d, 0, Len(d))

retrieveChunks(store, questionEmbedding, k) ==
    LET scored == [i \in 1..Len(store) |->
                      [Chunk |-> store[i],
                       Score |-> cosineSimilarity(questionEmbedding, store[i].Embedding)]]
        sorted == SortSliceByScore(scored)
        limit == IF Len(scored) < k THEN Len(scored) ELSE k
    IN  [i \in 1..limit |-> sorted[i].Chunk]

\* The chunk indexed at place i of a store, with embedding e.
ChunkAt(i, e) == [Path |-> FileA, Content |-> Slice(Text(2), i, i + 1), Embedding |-> e]

Embeddings == {<<1, 0>>, <<0, 1>>, <<0, 0>>, <<3, 4>>}

\* Stores of up to three chunks with any of the embeddings.
ShortStores ==
    UNION {{[i \in 1..n |-> ChunkAt(i, e[i])] : e \in [1..n -> Embeddings]} : n \in 0..3}

\* Stores of thirteen chunks, each along or across the question.
LongStores ==
    {[i \in 1..LongestSorted |-> ChunkAt(i, IF i \in along THEN <<1, 0>> ELSE <<0, 1>>)] :
        along \in SUBSET {1, 2, 7, 12, 13}}

Questions == {<<1, 0>>, <<0, 0>>, <<4, 3>>}

Ks == {0, 2, topK, 20}

NoQuery == [made |-> FALSE, embedding |-> <<>>, k |-> 0]

InitRag ==
    /\ vectorStore \in ShortStores \cup LongStores
    /\ request = NoQuery
    /\ retrieved = <<>>
    /\ reply = [made |-> FALSE]

IdleRag ==
    /\ vectorStore = <<>>
    /\ request = NoQuery
    /\ retrieved = <<>>
    /\ reply = [made |-> FALSE]

RetrieveChunks(questionEmbedding, k) ==
    /\ request' = [made |-> TRUE, embedding |-> questionEmbedding, k |-> k]
    /\ retrieved' = retrieveChunks(vectorStore, questionEmbedding, k)
    /\ UNCHANGED <<vectorStore, reply>>
    /\ UNCHANGED notRagVars

NextRag == \E q \in Questions, k \in Ks : RetrieveChunks(q, k)

\* ------------------------------------------------------------------- Ask

\* Texts that the code builds from parts (answers, error messages) are
\* sequences of their parts; the nil error and the empty string are <<>>.

\* What GenerateContent may return for the answer or presentation prompt.
CompletionAnswers ==
    {[err |-> <<"gemini content API error">>, text |-> <<>>],
     [err |-> <<>>, text |-> <<"the model's text">>]}

\* ---- routeToTool

\* A routing response is known by what surrounds its body, a leading
\* "```json" and a trailing "```" (or "```" and a newline), and by its body:
\* prose, the JSON null, a JSON object with some of the string fields tool,
\* query and file_path, or a JSON object whose tool is no string.
Body(kind, tool, query, filePath) ==
    [kind |-> kind, tool |-> tool, query |-> query, file_path |-> filePath]

Response(open, close, body) == [open |-> open, close |-> close, body |-> body]

ASTBodies ==
    {Body("object", "ast_tool", q, f) :
        q \in {"find_http_handlers", "find_global_variables", "find_structs", ""},
        f \in {"main.go", "broken.go", "gone.go"}}

Bodies ==
    {Body("prose", "", "", ""), Body("null", "", "", ""), Body("mistyped", "", "", ""),
     Body("object", "", "", ""), Body("object", "vector_search", "", ""),
     Body("object", "web_search", "find_http_handlers", "main.go")}
    \cup ASTBodies

RouteAnswers ==
    {[err |-> <<"gemini content API error">>, text |-> Response(FALSE, "none", Body("prose", "", "", ""))]}
    \cup {[err |-> <<>>, text |-> Response(FALSE, "none", b)] : b \in Bodies}
    \cup {[err |-> <<>>, text |-> Response(open, close, Body("object", "ast_tool", "find_http_handlers", "main.go"))] :
              open \in BOOLEAN, close \in {"none", "fence", "fence and newline"}}

TrimPrefix(response) == [response EXCEPT !.open = FALSE]

TrimSuffix(response) ==
    IF response.close = "fence" THEN [response EXCEPT !.close = "none"] ELSE response

NoChoice == [Tool |-> "", Query |-> "", FilePath |-> ""]

\* json.Unmarshal into a toolChoice: text around the value and a value that
\* is no object of strings are errors; null leaves the zero choice, and a
\* field the object lacks stays empty.
Unmarshal(response) ==
    IF response.open \/ response.close # "none" \/ response.body.kind \in {"prose", "mistyped"}
    THEN [err |-> <<"failed to decode tool choice">>, choice |-> NoChoice]
    ELSE [err |-> <<>>,
          choice |-> [Tool |-> response.body.tool, Query |-> response.body.query,
                      FilePath |-> response.body.file_path]]

routeToTool(answer) ==
    IF answer.err # <<>> THEN [err |-> answer.err, choice |-> NoChoice]
    ELSE Unmarshal(TrimSuffix(TrimPrefix(answer.text)))

\* ---- ASTTool.Execute

\* The Go files of the repository: one that parses, one that does not.
GoFiles == [f \in {"main.go", "broken.go"} |-> f = "main.go"]

Execute(query, filePath) ==
    IF filePath \notin DOMAIN GoFiles
    THEN [err |-> <<"file not found: ", filePath>>, result |-> <<>>]
    ELSE IF ~GoFiles[filePath]
    THEN [err |-> <<"failed to parse file ", filePath>>, result |-> <<>>]
    ELSE CASE query = "find_http_handlers" ->
                [err |-> <<>>, result |-> <<"HTTP handlers of ", filePath>>]
           [] query = "find_global_variables" ->
                [err |-> <<>>, result |-> <<"global variables of ", filePath>>]
           [] OTHER -> [err |-> <<"unknown AST query: ", query>>, result |-> <<>>]

\* ---- the answerers

NotRun == [ran |-> FALSE, question |-> "", answer |-> <<>>, err |-> <<>>, retrieved |-> <<>>]

NoneFound == <<"I couldn't find any relevant information in the codebase to answer your question.">>

\* env.embed: what GenerateEmbeddings returns for the question;
\* env.completion: what GenerateContent returns for the prompt.
answerWithRAG(store, question, env) ==
    IF env.embed.err
    THEN [NotRun EXCEPT !.ran = TRUE, !.question = question,
                        !.err = <<"failed to generate embedding for question: ", "embedding error">>]
    ELSE LET retrievedChunks == retrieveChunks(store, env.embed.values, topK)
             ran == [NotRun EXCEPT !.ran = TRUE, !.question = question,
                                   !.retrieved = retrievedChunks]
         IN  IF Len(retrievedChunks) = 0 THEN [ran EXCEPT !.answer = NoneFound]
             ELSE IF env.completion.err # <<>>
             THEN [ran EXCEPT !.err = <<"failed to generate answer from AI: ">> \o env.completion.err]
             ELSE [ran EXCEPT !.answer = env.completion.text]

fallbackMessage(err) ==
    <<"I tried to use the AST tool but encountered an error: ">> \o err
        \o <<". I will try to answer using a general search instead.">>

FallbackAnswer_NoNote(err, ragAnswer) == ragAnswer

FallbackAnswer(err, ragAnswer) == fallbackMessage(err) \o ragAnswer

NoReply ==
    [made |-> FALSE, question |-> "", answer |-> <<>>, err |-> <<>>,
     routeErr |-> <<>>, choice |-> NoChoice, astRan |-> FALSE, astErr |-> <<>>, rag |-> NotRun]

\* The branch of answerWithAST after a failed Execute, rag being what
\* answerWithRAG returned for the original question.
FallBackToRAG(ran, toolErr, rag) ==
    IF rag.err # <<>>
    THEN [ran EXCEPT !.rag = rag,
                     !.err = <<"AST tool failed (">> \o toolErr
                                 \o <<") and fallback RAG also failed (">> \o rag.err
                                 \o <<")">>]
    ELSE [ran EXCEPT !.rag = rag, !.answer = FallbackAnswer(toolErr, rag.answer)]

answerWithAST(store, query, filePath, originalQuestion, env) ==
    LET tool == Execute(query, filePath)
        ran == [NoReply EXCEPT !.astRan = TRUE, !.astErr = tool.err]
    IN  IF tool.err # <<>>
        THEN FallBackToRAG(ran, tool.err, answerWithRAG(store, originalQuestion, env))
        ELSE [ran EXCEPT !.answer = env.completion.text, !.err = env.completion.err]

\* The case of Ask's switch that leads to the structural tool.
UsesASTTool_UnlessVectorSearch(tool) == tool # "vector_search"

UsesASTTool(tool) == tool = "ast_tool"

\* return a.answerWithRAG(ctx, question)
ByRAG(rag) == [NoReply EXCEPT !.rag = rag, !.answer = rag.answer, !.err = rag.err]

\* What Ask returns, with what it did on the way.
AskFor(store, question, env) ==
    LET routed == routeToTool(env.route)
        done == IF routed.err # <<>> \/ ~UsesASTTool(routed.choice.Tool)
                THEN ByRAG(answerWithRAG(store, question, env))
                ELSE answerWithAST(store, routed.choice.Query, routed.choice.FilePath, question, env)
    IN  [done EXCEPT !.made = TRUE, !.question = question,
                     !.routeErr = routed.err, !.choice = routed.choice]

AskEnvs == [route : RouteAnswers, embed : EmbedAnswers, completion : CompletionAnswers]

\* The stores of the agents that are asked: none, one or six chunks.
AskedStores ==
    {[i \in 1..n |-> ChunkAt(i, IF i = 2 THEN <<1, 0>> ELSE <<0, 1>>)] : n \in {0, 1, topK + 1}}

InitAsk ==
    /\ vectorStore \in AskedStores
    /\ request = NoQuery
    /\ retrieved = <<>>
    /\ reply = NoReply

\* One call of Ask, from entry to return.
Ask(question) ==
    /\ \E env \in AskEnvs :
        /\ reply' = AskFor(vectorStore, question, env)
        /\ IF reply'.rag.ran /\ ~env.embed.err
           THEN /\ request' = [made |-> TRUE, embedding |-> env.embed.values, k |-> topK]
                /\ retrieved' = reply'.rag.retrieved
           ELSE UNCHANGED <<request, retrieved>>
        /\ UNCHANGED vectorStore
        /\ UNCHANGED notRagVars

NextAsk == \E question \in {"what does main do?", "list the handlers of main.go"} : Ask(question)

\* ------------------------------------- fingerprints of a changing repository

NoFingerprint == [made |-> FALSE, of |-> [git |-> FALSE, head |-> "", files |-> <<>>],
                  err |-> FALSE, hash |-> NoHash]

InitFingerprint == fingerprint = NoFingerprint

\* One call of GetRepoStateHash on the repository.
TakeFingerprint ==
    /\ \E env \in HashEnvs(repo) :
          LET state == GetRepoStateHash(repo, env) IN
          fingerprint' = [made |-> TRUE, of |-> repo, err |-> state.err, hash |-> state.hash]
    /\ UNCHANGED agentVars
    /\ UNCHANGED <<aggVars, concVars, ragVars, analyzeVars, indexed, session, moreVars>>

\* The files of the work tree that come and go.
WorkPaths == {FileA, FileB}

\* A file of the work tree is written with another text, another
\* modification time (which the writer can set as it likes) or both.
Rewrite(path, rev, mtime) ==
    /\ path \in DOMAIN repo.files \cap WorkPaths
    /\ repo.files[path] # [rev |-> rev, mtime |-> mtime]
    /\ repo' = [repo EXCEPT !.files[path] = [rev |-> rev, mtime |-> mtime]]
    /\ UNCHANGED <<cacheFile, call, first>>
    /\ UNCHANGED notAgentVars

CreateFile(path, rev, mtime) ==
    /\ path \in WorkPaths \ DOMAIN repo.files
    /\ repo' = [repo EXCEPT !.files = [p \in DOMAIN repo.files \cup {path} |->
                                          IF p = path THEN [rev |-> rev, mtime |-> mtime]
                                          ELSE repo.files[p]]]
    /\ UNCHANGED <<cacheFile, call, first>>
    /\ UNCHANGED notAgentVars

RemoveFile(path) ==
    /\ path \in DOMAIN repo.files \cap WorkPaths
    /\ repo' = [repo EXCEPT !.files = [p \in DOMAIN repo.files \ {path} |-> repo.files[p]]]
    /\ UNCHANGED <<cacheFile, call, first>>
    /\ UNCHANGED notAgentVars

\* A rename keeps text and modification time.
RenameFile(from, to) ==
    /\ from \in DOMAIN repo.files \cap WorkPaths
    /\ to \in WorkPaths \ DOMAIN repo.files
    /\ repo' = [repo EXCEPT !.files = [p \in (DOMAIN repo.files \ {from}) \cup {to} |->
                                          IF p = to THEN repo.files[from] ELSE repo.files[p]]]
    /\ UNCHANGED <<cacheFile, call, first>>
    /\ UNCHANGED notAgentVars

NextFingerprint ==
    \/ TakeFingerprint
    \/ \E rev \in Revs, mtime \in MTimes : Rewrite(FileA, rev, mtime)
    \/ \E rev \in Revs, mtime \in MTimes : CreateFile(FileB, rev, mtime)
    \/ RemoveFile(FileB)
    \/ RenameFile(FileA, FileB)
    \/ \E head \in Commits : Commit(head)

\* ------------------------------------------------------ ReviewEngine.Analyze

\* The goroutines Analyze can dispatch: one per language of the request's
\* files, and the AI analyzer.
Languages == {"go", "python", "javascript"}
Analyzers == Languages \cup {"ai"}

NotStarted == [pc |-> "none", issues |-> <<>>, next |-> 1]

InitAnalyze ==
    /\ apc = "dispatch"
    /\ pending \in SUBSET Analyzers
    /\ wg = 0
    /\ resultMutex = "free"
    /\ worker = [w \in Analyzers |-> NotStarted]
    /\ report = NewAnalysisResult
    /\ seen = <<>>

IdleAnalyze ==
    /\ apc = "idle"
    /\ pending = {}
    /\ wg = 0
    /\ resultMutex = "free"
    /\ worker = <<>>
    /\ report = NewAnalysisResult
    /\ seen = <<>>

\* wg.Add(1); go func() {...}: the language goroutines are started in the
\* loop over filesByLang, the AI goroutine after that loop.
Go(w) ==
    /\ apc = "dispatch"
    /\ w \in pending
    /\ w = "ai" => pending \cap Languages = {}
    /\ pending' = pending \ {w}
    /\ wg' = wg + 1
    /\ worker' = [worker EXCEPT ![w].pc = "started"]
    /\ UNCHANGED <<apc, resultMutex, report, seen>>
    /\ UNCHANGED notAnalyzeVars

\* The goroutine up to the lock: it returns early when the language has no
\* enabled tools, has no analyzer (any language but go and python) or when
\* the analyzer fails; otherwise it holds the issues the analyzer returned.
RunAnalyzer(w) ==
    /\ worker[w].pc = "started"
    /\ \/ worker' = [worker EXCEPT ![w].pc = "exit"]
       \/ /\ w # "javascript"
          /\ \E issues \in IssueLists :
                worker' = [worker EXCEPT ![w].pc = "lock", ![w].issues = issues]
    /\ UNCHANGED <<apc, pending, wg, resultMutex, report, seen>>
    /\ UNCHANGED notAnalyzeVars

\* resultMutex.Lock()
LockResult(w) ==
    /\ worker[w].pc = "lock"
    /\ resultMutex = "free"
    /\ resultMutex' = w
    /\ worker' = [worker EXCEPT ![w].pc = "add"]
    /\ UNCHANGED <<apc, pending, wg, report, seen>>
    /\ UNCHANGED notAnalyzeVars

\* One round of for _, issue := range issues { result.AddIssue(issue) }
AddNext(w) ==
    /\ worker[w].pc = "add"
    /\ worker[w].next <= Len(worker[w].issues)
    /\ report' = AddIssue(report, worker[w].issues[worker[w].next])
    /\ worker' = [worker EXCEPT ![w].next = @ + 1]
    /\ UNCHANGED <<apc, pending, wg, resultMutex, seen>>
    /\ UNCHANGED notAnalyzeVars

\* resultMutex.Unlock() after the loop
UnlockResult(w) ==
    /\ worker[w].pc = "add"
    /\ worker[w].next > Len(worker[w].issues)
    /\ resultMutex' = "free"
    /\ worker' = [worker EXCEPT ![w].pc = "exit"]
    /\ UNCHANGED <<apc, pending, wg, report, seen>>
    /\ UNCHANGED notAnalyzeVars

\* A wg.Done() that the return of the default case of the switch skips.
Done_SkippedWithoutAnalyzer(w) ==
    /\ w # "javascript"
    /\ worker[w].pc = "exit"
    /\ wg' = wg - 1
    /\ worker' = [worker EXCEPT ![w].pc = "done"]
    /\ UNCHANGED <<apc, pending, resultMutex, report, seen>>
    /\ UNCHANGED notAnalyzeVars

\* The deferred wg.Done() as the goroutine returns.
Done(w) ==
    /\ worker[w].pc = "exit"
    /\ wg' = wg - 1
    /\ worker' = [worker EXCEPT ![w].pc = "done"]
    /\ UNCHANGED <<apc, pending, resultMutex, report, seen>>
    /\ UNCHANGED notAnalyzeVars

\* A Wait that returns without looking at the counter.
WaitReturns_AtOnce == TRUE

\* wg.Wait() returns when the counter is zero.
WaitReturns == wg = 0

Wait ==
    /\ apc = "dispatch"
    /\ pending = {}
    /\ WaitReturns
    /\ apc' = "deps"
    /\ UNCHANGED <<pending, wg, resultMutex, worker, report, seen>>
    /\ UNCHANGED notAnalyzeVars

\* A step of Analyze after the join that uses the result: what it finds in
\* the result is noted.
UseResult(at, next) ==
    /\ apc = at
    /\ seen' = Append(seen, [by |-> at, issues |-> report.Issues])
    /\ apc' = next
    /\ UNCHANGED <<pending, wg, resultMutex, worker, report>>
    /\ UNCHANGED notAnalyzeVars

AnalyzeDependencies == UseResult("deps", "complete")

CompleteAnalysis == UseResult("complete", "export")

\* exportResults, skipped when the output directory cannot be made.
ExportResults ==
    \/ UseResult("export", "log")
    \/ /\ apc = "export"
       /\ apc' = "log"
       /\ UNCHANGED <<pending, wg, resultMutex, worker, report, seen>>
       /\ UNCHANGED notAnalyzeVars

LogSummary == UseResult("log", "return")

ReturnResult == UseResult("return", "returned")

NextAnalyze ==
    \/ \E w \in Analyzers :
          \/ Go(w)
          \/ RunAnalyzer(w)
          \/ LockResult(w)
          \/ AddNext(w)
          \/ UnlockResult(w)
          \/ Done(w)
    \/ Wait
    \/ AnalyzeDependencies
    \/ CompleteAnalysis
    \/ ExportResults
    \/ LogSummary
    \/ ReturnResult

\* ----------------------------------------------- index over a whole work tree

NotIndexed ==
    [made |-> FALSE, of |-> [git |-> FALSE, head |-> "", files |-> <<>>],
     env |-> [walkErrAt |-> 0, readOk |-> <<>>, embed |-> <<>>],
     err |-> FALSE, vectorStore |-> <<>>]

InitIndexed == indexed = NotIndexed

\* One pass of index over the repository, from an empty store.
IndexRepo ==
    /\ \E env \in IndexEnvs(repo) :
          LET pass == index(repo, env) IN
          indexed' = [made |-> TRUE, of |-> repo, env |-> env,
                      err |-> pass.err, vectorStore |-> pass.vectorStore]
    /\ UNCHANGED agentVars
    /\ UNCHANGED <<aggVars, concVars, ragVars, fingerprint, analyzeVars, session, moreVars>>

NextIndex ==
    \/ IndexRepo
    \/ \E rev \in Revs, mtime \in MTimes : Rewrite(FileA, rev, mtime)
    \/ \E rev \in Revs : CreateFile(FileB, rev, 1)
    \/ RemoveFile(FileB)

\* ------------------------------------- NewAgent under a cancelled context

\* The embedding calls an index pass makes, in its order: the windows of
\* every text file it could read.
RECURSIVE CallsFrom(_, _, _)
CallsFrom(r, env, k) ==
    IF k > Len(WalkEntries(r)) THEN <<>>
    ELSE LET path == WalkEntries(r)[k] IN
         (IF path \in TextFiles /\ env.readOk[path]
          THEN [i \in 1..Len(ChunksOf[r.files[path].rev]) |-> <<path, i>>]
          ELSE <<>>) \o CallsFrom(r, env, k + 1)

\* The place of call s among the calls, 0 when it is not made.
PlaceIn(calls, s) ==
    IF \E i \in 1..Len(calls) : calls[i] = s
    THEN CHOOSE i \in 1..Len(calls) : calls[i] = s
    ELSE 0

\* The context reaches GenerateEmbeddings only (http.NewRequestWithContext):
\* a call made after the cancellation returns the context's error. done is
\* the number of calls that returned before the context was cancelled.
UnderContext(r, env, done) ==
    [env EXCEPT !.embed = [s \in DOMAIN env.embed |->
                             IF PlaceIn(CallsFrom(r, env, 1), s) > done
                             THEN EmbedError ELSE env.embed[s]]]

\* A walk callback that returns ctx.Err() once the context is cancelled.
indexWithContext_ReturnsCtxErr(r, env, done) ==
    [index(r, UnderContext(r, env, done)) EXCEPT
        !.err = @ \/ done < Len(CallsFrom(r, env, 1))]

\* a.index(ctx, repoPath, progressCb): neither filepath.Walk nor os.ReadFile
\* looks at the context.
indexWithContext(r, env, done) == index(r, UnderContext(r, env, done))

\* What the pass may meet besides the cancellation: files that cannot be
\* read, or an error in the walk; the embedding service answers every call it
\* gets in time.
SessionEnvs(r) == {env \in IndexEnvs(r) : \A s \in DOMAIN env.embed : ~env.embed[s].err}

NoSession ==
    [made |-> FALSE, of |-> [git |-> FALSE, head |-> "", files |-> <<>>],
     env |-> [walkErrAt |-> 0, readOk |-> <<>>, embed |-> <<>>], done |-> 0,
     indexed |-> FALSE, err |-> "", store |-> <<>>, fileReads |-> 0, embedCalls |-> 0,
     saved |-> "no"]

InitSession == session = NoSession

\* NewAgent returns before it wrote the cache file.
SessionReturn(s) ==
    /\ session' = s
    /\ UNCHANGED <<cacheFile, first>>

\* Lines 83 to 94 of NewAgent: the pass ix, and the save of what it gathered.
AfterIndex(entered, ix, stateHash, outcome) ==
    IF ix.err
    THEN SessionReturn([entered EXCEPT !.err = IndexErr, !.indexed = TRUE,
                                       !.fileReads = ix.fileReads,
                                       !.embedCalls = ix.embedCalls])
    ELSE /\ session' = [entered EXCEPT !.store = ix.vectorStore, !.indexed = TRUE,
                                       !.fileReads = ix.fileReads,
                                       !.embedCalls = ix.embedCalls,
                                       !.saved = IF outcome = "ok" THEN "ok" ELSE "failed"]
         /\ cacheFile' = saveCache(cacheFile,
                                   [CommitHash |-> stateHash, VectorStore |-> ix.vectorStore],
                                   outcome).file
         /\ first' = IF outcome = "ok"
                     THEN [made |-> TRUE, hash |-> stateHash, store |-> ix.vectorStore]
                     ELSE IF outcome = "create fails" THEN first ELSE NoFirst

\* One call of NewAgent with a context that is cancelled when done embedding
\* calls have returned (never, when done is the number of calls of the pass).
NewAgentWithContext ==
    /\ ~session.made
    /\ \E henv \in HashEnvs(repo) :
          LET state == GetRepoStateHash(repo, henv)
              entered == [NoSession EXCEPT !.made = TRUE, !.of = repo]
          IN
          IF state.err
          THEN SessionReturn([entered EXCEPT !.err = StateErr])
          ELSE \E pathOk \in BOOLEAN :
               IF ~pathOk
               THEN SessionReturn([entered EXCEPT !.err = PathErr])
               ELSE \E openOk \in OpenOutcomes(cacheFile) :
                    IF CacheHit(loadCache(cacheFile, openOk), state.hash)
                    THEN SessionReturn([entered EXCEPT
                                          !.store = loadCache(cacheFile, openOk).data.VectorStore])
                    ELSE \E env \in SessionEnvs(repo) :
                         \E done \in 0..Len(CallsFrom(repo, env, 1)) :
                         \E outcome \in SaveOutcomes :
                            AfterIndex([entered EXCEPT !.env = env, !.done = done],
                                       indexWithContext(repo, env, done),
                                       state.hash, outcome)
    /\ UNCHANGED <<repo, call>>
    /\ UNCHANGED <<aggVars, concVars, ragVars, fingerprint, analyzeVars, indexed, moreVars>>

NextSession ==
    \/ NewAgentWithContext
    \/ ~session.made /\ \E rev \in Revs : Rewrite(FileA, rev, 1)
    \/ ~session.made /\ \E rev \in Revs : CreateFile(FileB, rev, 1)
    \/ ~session.made /\ RemoveFile(FileB)

\* ------------------------------------------------ splitIntoChunks, by step

\* The longest text split, in runes.
MaxTextLen == 1000

\* The start of the window after the one at i: the post statement of the loop.
NextStart_PastWindow(i) == i + chunkSize + 1

NextStart(i) == i + (chunkSize - chunkOverlap)

\* The end of the window at i in a text of n runes.
WindowEnd(i, n) == IF i + chunkSize > n THEN n ELSE i + chunkSize

NoSplit == [text |-> Text(1), pc |-> "idle", i |-> 0, chunks |-> <<>>]

IdleSplit == split = NoSplit

InitSplit ==
    \E n \in 0..MaxTextLen :
        split = [text |-> [id |-> 1, len |-> n], pc |-> "entry", i |-> 0, chunks |-> <<>>]

\* textRunes := []rune(text) and the test of an empty text.
SplitEnter ==
    /\ split.pc = "entry"
    /\ split' = [split EXCEPT !.pc = IF split.text.len = 0 THEN "returned" ELSE "loop"]
    /\ UNCHANGED notSplitVars

\* One turn of the loop: the window at i is appended.
SplitLoop ==
    /\ split.pc = "loop"
    /\ split.i < split.text.len
    /\ split' = [split EXCEPT
                    !.chunks = Append(@, Slice(split.text, split.i,
                                               WindowEnd(split.i, split.text.len))),
                    !.i = NextStart(split.i)]
    /\ UNCHANGED notSplitVars

\* The loop condition fails: return chunks.
SplitReturn ==
    /\ split.pc = "loop"
    /\ split.i >= split.text.len
    /\ split' = [split EXCEPT !.pc = "returned"]
    /\ UNCHANGED notSplitVars

NextSplit ==
    \/ SplitEnter
    \/ SplitLoop
    \/ SplitReturn

\* ------------------------------------ similarity over embeddings as given

\* The most chunks a store holds here.
MaxChunks == 3

\* What GenerateEmbeddings may return with a nil error: the values array of
\* the answer as it is, of whatever length, also none.
ApiVectors == {<<>>, <<0, 0>>, <<1, 0>>, <<1, 0, 0>>}

\* a[i] * b[i] for i < len(a): the index is out of the range of a shorter b.
Panics(a, b) == Len(a) > Len(b)

NoSim == [store |-> <<>>, asked |-> FALSE, question |-> <<>>, panicked |-> FALSE, scores |-> <<>>]

IdleSim == sim = NoSim

InitSim == sim = NoSim

\* Lines 119 to 130 of index: the embedding returned for a chunk is appended
\* as it is.  A store loaded from the cache holds what such passes appended.
AppendChunk(embedding) ==
    /\ ~sim.asked
    /\ Len(sim.store) < MaxChunks
    /\ sim' = [sim EXCEPT !.store = Append(@, embedding)]
    /\ UNCHANGED notSimVars

\* The scoring loop of retrieveChunks on the embedding of the question.
ScoreStore(questionEmbedding) ==
    /\ ~sim.asked
    /\ sim' = [sim EXCEPT
                 !.asked = TRUE,
                 !.question = questionEmbedding,
                 !.panicked = \E i \in 1..Len(sim.store) : Panics(questionEmbedding, sim.store[i]),
                 !.scores = IF \E i \in 1..Len(sim.store) : Panics(questionEmbedding, sim.store[i])
                            THEN <<>>
                            ELSE [i \in 1..Len(sim.store) |->
                                    cosineSimilarity(questionEmbedding, sim.store[i])]]
    /\ UNCHANGED notSimVars

NextSim ==
    \/ \E v \in ApiVectors : AppendChunk(v)
    \/ \E q \in ApiVectors : ScoreStore(q)

\* ------------------------- two sessions on one cache file, read by read

\* The most chunks an index pass stores here.
MaxStored == 2

Sessions == {"s1", "s2"}

\* The cache file in pieces as reads and writes move them: the gob type
\* definitions, the start of the value message (its length, CommitHash and
\* the number of chunks), one piece per chunk, and the zero bytes of a hole.
TypesPiece == [kind |-> "types", hash |-> "", n |-> 0, at |-> 0]
HeadPiece(hash, n) == [kind |-> "head", hash |-> hash, n |-> n, at |-> 0]
ChunkPiece(hash, i) == [kind |-> "chunk", hash |-> hash, n |-> 0, at |-> i]
HolePiece == [kind |-> "hole", hash |-> "", n |-> 0, at |-> 0]

\* What index gathers for the repository state with fingerprint hash when it
\* stores n chunks: CachedData{CommitHash, VectorStore}.
CachedData(hash, n) ==
    [CommitHash |-> hash, VectorStore |-> [i \in 1..n |-> ChunkPiece(hash, i)]]

\* The value message Encode writes for data, in one Write call.
ValuePieces(data) ==
    <<HeadPiece(data.CommitHash, Len(data.VectorStore))>> \o data.VectorStore

\* file.Write at the offset of the writer's own descriptor: what lies beyond
\* the end of the file up to that offset reads as zero bytes.
WriteAt(pieces, at, new) ==
    LET end == at + Len(new) - 1
        len == IF Len(pieces) > end THEN Len(pieces) ELSE end
    IN  [i \in 1..len |->
            IF i >= at /\ i <= end THEN new[i - at + 1]
            ELSE IF i <= Len(pieces) THEN pieces[i]
            ELSE HolePiece]

\* What the decoder makes of the pieces read so far: "more" while the value
\* is not whole, "error" when they are no gob stream of a CachedData, "value"
\* when the value is whole.
Decoded(got) ==
    IF got = <<>> THEN "more"
    ELSE IF got[1] # TypesPiece THEN "error"
    ELSE IF Len(got) = 1 THEN "more"
    ELSE IF got[2].kind # "head" THEN "error"
    ELSE IF \E i \in 3..Len(got) : got[i].kind # "chunk" THEN "error"
    ELSE IF Len(got) < 2 + got[2].n THEN "more"
    ELSE "value"

NoWork == [pc |-> "idle", hash |-> "", got |-> <<>>, hit |-> FALSE,
           data |-> CachedData("", 0)]

IdleSessions ==
    /\ cfile = [exists |-> FALSE, pieces |-> <<>>]
    /\ sess = <<>>
    /\ saved = {}

\* Two sessions are about to start; the cache file is not there, or an
\* earlier session wrote it.
InitSessions ==
    /\ sess = [s \in Sessions |-> [NoWork EXCEPT !.pc = "start"]]
    /\ \/ cfile = [exists |-> FALSE, pieces |-> <<>>] /\ saved = {}
       \/ \E n \in 1..MaxStored :
             /\ cfile = [exists |-> TRUE,
                         pieces |-> <<TypesPiece>> \o ValuePieces(CachedData("c1", n))]
             /\ saved = {CachedData("c1", n)}

\* utils.GetRepoStateHash: the fingerprint of the repository as it is then.
GetStateHash(s) ==
    /\ sess[s].pc = "start"
    /\ \E hash \in Commits : sess' = [sess EXCEPT ![s].hash = hash, ![s].pc = "open"]
    /\ UNCHANGED <<cfile, saved>>
    /\ UNCHANGED notSessionsVars

\* os.Open in loadCache.
OpenCache(s) ==
    /\ sess[s].pc = "open"
    /\ sess' = [sess EXCEPT ![s].pc = IF cfile.exists THEN "read" ELSE "index"]
    /\ UNCHANGED <<cfile, saved>>
    /\ UNCHANGED notSessionsVars

\* The test of line 71 on what Decode returned.
AfterDecode(w) ==
    CASE Decoded(w.got) = "more" -> w
      [] Decoded(w.got) = "error" -> [w EXCEPT !.pc = "index"]
      [] OTHER ->
           IF w.got[2].hash = w.hash
           THEN [w EXCEPT !.pc = "done", !.hit = TRUE,
                          !.data = [CommitHash |-> w.got[2].hash,
                                    VectorStore |-> SubSeq(w.got, 3, Len(w.got))]]
           ELSE [w EXCEPT !.pc = "index"]

\* One read of the decoder at its offset: the first takes the type
\* definitions and the start of the value when both are there, a later one
\* the next piece; nothing to read is an unexpected end of the stream.
ReadCache(s) ==
    /\ sess[s].pc = "read"
    /\ LET at == Len(sess[s].got) + 1
           to == IF at = 1 /\ Len(cfile.pieces) >= 2 THEN 2 ELSE at
       IN  sess' = [sess EXCEPT ![s] =
                      IF Len(cfile.pieces) < at THEN [@ EXCEPT !.pc = "index"]
                      ELSE AfterDecode([@ EXCEPT !.got = @ \o SubSeq(cfile.pieces, at, to)])]
    /\ UNCHANGED <<cfile, saved>>
    /\ UNCHANGED notSessionsVars

\* a.index after a miss: the store of this repository state.
IndexAfterMiss(s) ==
    /\ sess[s].pc = "index"
    /\ \E n \in 1..MaxStored :
          sess' = [sess EXCEPT ![s].data = CachedData(sess[s].hash, n), ![s].pc = "create"]
    /\ UNCHANGED <<cfile, saved>>
    /\ UNCHANGED notSessionsVars

\* os.Create in saveCache: the file is there and empty.
CreateCache(s) ==
    /\ sess[s].pc = "create"
    /\ cfile' = [exists |-> TRUE, pieces |-> <<>>]
    /\ sess' = [sess EXCEPT ![s].pc = "types"]
    /\ UNCHANGED saved
    /\ UNCHANGED notSessionsVars

\* Encode sends the type definitions: Write calls at offset 0.
EncodeTypes(s) ==
    /\ sess[s].pc = "types"
    /\ cfile' = [cfile EXCEPT !.pieces = WriteAt(@, 1, <<TypesPiece>>)]
    /\ sess' = [sess EXCEPT ![s].pc = "value"]
    /\ UNCHANGED saved
    /\ UNCHANGED notSessionsVars

\* Encode sends the value, and saveCache returns.
EncodeValue(s) ==
    /\ sess[s].pc = "value"
    /\ cfile' = [cfile EXCEPT !.pieces = WriteAt(@, 2, ValuePieces(sess[s].data))]
    /\ saved' = saved \cup {sess[s].data}
    /\ sess' = [sess EXCEPT ![s].pc = "done"]
    /\ UNCHANGED notSessionsVars

NextSessions ==
    \E s \in Sessions :
        \/ GetStateHash(s)
        \/ OpenCache(s)
        \/ ReadCache(s)
        \/ IndexAfterMiss(s)
        \/ CreateCache(s)
        \/ EncodeTypes(s)
        \/ EncodeValue(s)

\* The parts modelled step by step are not run.
IdleMore == IdleSplit /\ IdleSim /\ IdleSessions

\* Aggregation of the result of a finished analysis.
InitAggregation == InitAgg /\ IdleConc /\ IdleAgent /\ IdleRag /\ InitFingerprint /\ IdleAnalyze /\ InitIndexed /\ InitSession /\ IdleMore

\* Goroutines adding to a fresh result.
InitGoroutines == IdleAgg /\ InitConc /\ IdleAgent /\ IdleRag /\ InitFingerprint /\ IdleAnalyze /\ InitIndexed /\ InitSession /\ IdleMore

\* NewAgent calls on a repository that is worked on between them.
InitAgentCalls == IdleAgg /\ IdleConc /\ InitAgent /\ IdleRag /\ InitFingerprint /\ IdleAnalyze /\ InitIndexed /\ InitSession /\ IdleMore

\* Retrieval from the store of an agent.
InitRetrieval == IdleAgg /\ IdleConc /\ IdleAgent /\ InitRag /\ InitFingerprint /\ IdleAnalyze /\ InitIndexed /\ InitSession /\ IdleMore

\* Questions to an agent.
InitQuestions == IdleAgg /\ IdleConc /\ IdleAgent /\ InitAsk /\ InitFingerprint /\ IdleAnalyze /\ InitIndexed /\ InitSession /\ IdleMore

\* One call of Analyze.
InitAnalysis == IdleAgg /\ IdleConc /\ IdleAgent /\ IdleRag /\ InitFingerprint /\ InitAnalyze /\ InitIndexed /\ InitSession /\ IdleMore

\* Fingerprints of a repository that is worked on.
InitFingerprints == IdleAgg /\ IdleConc /\ InitAgent /\ IdleRag /\ InitFingerprint /\ IdleAnalyze /\ InitIndexed /\ InitSession /\ IdleMore

SpecDedup == InitAggregation /\ [][NextDedup]_vars
SpecOrder == InitAggregation /\ [][NextOrder]_vars
SpecCount == InitAggregation /\ [][NextCount]_vars
SpecFilter == InitAggregation /\ [][NextFilter]_vars
SpecConc == InitGoroutines /\ [][NextConc]_vars
SpecAgent == InitAgentCalls /\ [][NextAgent]_vars
SpecRag == InitRetrieval /\ [][NextRag]_vars
SpecTies == InitAggregation /\ [][NextTies]_vars
SpecAsk == InitQuestions /\ [][NextAsk]_vars
SpecFingerprint == InitFingerprints /\ [][NextFingerprint]_vars
SpecAnalyze == InitAnalysis /\ [][NextAnalyze]_vars

\* The Go scheduler runs a goroutine that can take a step, and Analyze
\* itself: some step that can be taken is taken.
SpecAnalyzeFair == InitAnalysis /\ [][NextAnalyze]_vars /\ WF_vars(NextAnalyze)
SpecIndex == InitFingerprints /\ [][NextIndex]_vars
SpecSession == InitFingerprints /\ [][NextSession]_vars

\* Calls of splitIntoChunks on texts of every length up to MaxTextLen.
InitSplits == IdleAgg /\ IdleConc /\ IdleAgent /\ IdleRag /\ InitFingerprint /\ IdleAnalyze /\ InitIndexed /\ InitSession /\ InitSplit /\ IdleSim /\ IdleSessions

\* The loop is sequential code: a step that can be taken is taken.
SpecSplit == InitSplits /\ [][NextSplit]_vars /\ WF_vars(NextSplit)

\* Stores of up to MaxChunks embeddings scored against a question.
InitSims == IdleAgg /\ IdleConc /\ IdleAgent /\ IdleRag /\ InitFingerprint /\ IdleAnalyze /\ InitIndexed /\ InitSession /\ IdleSplit /\ InitSim /\ IdleSessions

SpecSim == InitSims /\ [][NextSim]_vars

\* Two NewAgent calls on one repository path, step by step.
InitTwoSessions == IdleAgg /\ IdleConc /\ IdleAgent /\ IdleRag /\ InitFingerprint /\ IdleAnalyze /\ InitIndexed /\ InitSession /\ IdleSplit /\ IdleSim /\ InitSessions

SpecSessions == InitTwoSessions /\ [][NextSessions]_vars

\* ----------------------------------------------------- aggregator claims

Aggregated == pc # "collect"

\* The issue that scoring hands to removeDuplicates for raw issue i.
Delivered(i) ==
    IF aiEnabled THEN ScoreIssue(rawIssues[i], responses[i]) ELSE rawIssues[i]

DeliveredIssues == [i \in 1..Len(rawIssues) |-> Delivered(i)]

SameTriple(a, b) ==
    a.File = b.File /\ a.Line = b.Line /\ a.Description = b.Description

\* Raw issues i and j are both found in the result.
BothSurvive(i, j) ==
    \E m, n \in 1..Len(result.Issues) :
        m # n /\ result.Issues[m] = Delivered(i) /\ result.Issues[n] = Delivered(j)

\* The key string the deduplication is written to build, spelled by hand.
KeyString(issue) ==
    issue.File \o <<58>> \o
    (IF (0 <= issue.Line /\ issue.Line <= 55295) \/ (57344 <= issue.Line /\ issue.Line <= 1114111)
     THEN <<issue.Line>> ELSE <<65533>>)
    \o <<58>> \o issue.Description

\* The severity weights as the claims give them.
SeverityWeight(severity) ==
    CASE severity = Critical -> 4 [] severity = Error -> 3 [] severity = Warning -> 2
      [] severity = Info -> 1 [] severity = Hint -> 0 [] OTHER -> -1

\* The type weights as the claims give them.
TypeWeight(type) ==
    CASE type = "SECURITY" -> 5 [] type = "BUG" -> 4 [] type = "PERFORMANCE" -> 3
      [] type = "MAINTAINABILITY" -> 2 [] type = "DEPENDENCY" -> 1
      [] type = "CODE_STYLE" -> 0 [] OTHER -> -1

FirstHeaviest(k) ==
    CHOOSE i \in 1..Len(rawIssues) :
        /\ KeyString(Delivered(i)) = k
        /\ \A j \in 1..Len(rawIssues) :
              KeyString(Delivered(j)) = k =>
                  \/ SeverityWeight(Delivered(j).Severity) < SeverityWeight(Delivered(i).Severity)
                  \/ /\ SeverityWeight(Delivered(j).Severity) = SeverityWeight(Delivered(i).Severity)
                     /\ i <= j

\* C2: among the issues handed to removeDuplicates that share one dedup key,
\* the one kept is the one of highest severity weight, and the first of those
\* in input order when several have that weight.
C2_KeepsFirstHeaviest ==
    Aggregated =>
        \A i \in 1..Len(rawIssues) :
            LET k == KeyString(Delivered(i))
                kept == {m \in 1..Len(result.Issues) : KeyString(result.Issues[m]) = k}
            IN  /\ Cardinality(kept) = 1
                /\ \A m \in kept : result.Issues[m] = Delivered(FirstHeaviest(k))

\* C2's case: three issues share a key, the second and third tie on the
\* highest weight and differ, and the second is the one kept.
C2_Witness ==
    /\ Aggregated /\ Len(rawIssues) = 3 /\ Len(result.Issues) = 1
    /\ SeverityWeight(Delivered(1).Severity) < SeverityWeight(Delivered(2).Severity)
    /\ SeverityWeight(Delivered(2).Severity) = SeverityWeight(Delivered(3).Severity)
    /\ Delivered(2) # Delivered(3)
    /\ result.Issues[1] = Delivered(2)

StrLessEq(s, t) == s = t \/ StrLess(s, t)

\* a may stand directly before b in the reporting order.
InOrder(a, b) ==
    LET sa == SeverityWeight(a.Severity)
        sb == SeverityWeight(b.Severity)
        ta == TypeWeight(a.Type)
        tb == TypeWeight(b.Type)
    IN  /\ sa >= sb
        /\ sa = sb => ta >= tb
        /\ (sa = sb /\ ta = tb) => StrLessEq(a.File, b.File)
        /\ (sa = sb /\ ta = tb /\ a.File = b.File) => a.Line <= b.Line

\* C3: every two adjacent issues of the aggregated result are in order of
\* severity weight (descending), then type weight (descending), then file
\* (ascending), then line (ascending); severities INFO, CRITICAL, ERROR at
\* one file and line come out as CRITICAL, ERROR, INFO.
C3_ResultOrdered ==
    Aggregated =>
        /\ \A m \in 1..(Len(result.Issues) - 1) :
              InOrder(result.Issues[m], result.Issues[m + 1])
        /\ ( /\ Len(result.Issues) = 3
             /\ [i \in 1..Len(rawIssues) |-> Delivered(i).Severity] = <<Info, Critical, Error>>
             /\ \A i \in 1..3 : Delivered(i).File = FileA /\ Delivered(i).Line = 10 )
           => [m \in 1..3 |-> result.Issues[m].Severity] = <<Critical, Error, Info>>

\* C3's case: INFO, CRITICAL and ERROR issues of one file and line were
\* aggregated and all three are in the result.
C3_Witness ==
    /\ Aggregated /\ Len(result.Issues) = 3
    /\ [i \in 1..Len(rawIssues) |-> Delivered(i).Severity] = <<Info, Critical, Error>>
    /\ \A i \in 1..3 : Delivered(i).File = FileA /\ Delivered(i).Line = 10

\* The weight the threshold filter is specified to compare: a severity or a
\* threshold name in any letter case, an unrecognised one counting 0.
ThresholdWeight(name) ==
    LET w == SeverityWeight([i \in 1..Len(name) |->
                 IF name[i] >= 97 /\ name[i] <= 122 THEN name[i] - 32 ELSE name[i]])
    IN  IF w < 0 THEN 0 ELSE w

\* C4: FilterIssuesByThreshold returns exactly the issues whose severity weight
\* (CRITICAL=4, ERROR=3, WARNING=2, INFO=1, HINT=0) is at least the
\* threshold's, in their original order.
C4_FilterByWeight ==
    pc = "filtered" =>
        filtered = SelectSeq(result.Issues,
                       LAMBDA issue : ThresholdWeight(issue.Severity) >= ThresholdWeight(threshold))

CountWhere(issues, P(_)) == Cardinality({m \in 1..Len(issues) : P(issues[m])})

\* The entries of a count map are the numbers of issues with each key, and
\* every key that occurs has an entry.
MapCounts(m, issues, Key(_)) ==
    /\ \A k \in DOMAIN m : m[k] = CountWhere(issues, LAMBDA x : Key(x) = k)
    /\ \A i \in 1..Len(issues) : Key(issues[i]) \in DOMAIN m

\* C5: in every result, collected or returned by AggregateResults, the five
\* severity counters and the per-type, per-file and per-tool maps count the
\* issues of the result's own issue sequence.
C5_CountsMatchIssues ==
    LET s == result.Summary
        issues == result.Issues
    IN  /\ s.CriticalCount = CountWhere(issues, LAMBDA x : x.Severity = Critical)
        /\ s.ErrorCount = CountWhere(issues, LAMBDA x : x.Severity = Error)
        /\ s.WarningCount = CountWhere(issues, LAMBDA x : x.Severity = Warning)
        /\ s.InfoCount = CountWhere(issues, LAMBDA x : x.Severity = Info)
        /\ s.HintCount = CountWhere(issues, LAMBDA x : x.Severity = Hint)
        /\ MapCounts(s.IssuesByType, issues, LAMBDA x : x.Type)
        /\ MapCounts(s.IssuesByFile, issues, LAMBDA x : x.File)
        /\ MapCounts(s.IssuesByTool, issues, LAMBDA x : x.Tool)

\* C5's case: aggregation dropped a duplicate, so the counts of the raw
\* sequence would be too high, and issues of two tools remain.
C5_Witness ==
    /\ Aggregated
    /\ Len(rawIssues) = 3 /\ Len(result.Issues) = 2
    /\ Cardinality(DOMAIN result.Summary.IssuesByTool) = 2
    /\ result.Summary.CriticalCount = 1

\* C6: Summary.TotalIssues is the length of the issue sequence.
C6_TotalIsLength ==
    result.Summary.TotalIssues = Len(result.Issues)

\* ------------------------------------------------- concurrent AddIssue claims

\* The goroutines between Lock and Unlock of AddIssue.
InCriticalSection == {g \in Goroutines : gpc[g] \in {"append", "store", "count", "write", "unlock"}}

AllReturned == \A g \in Goroutines : gpc[g] = "idle" /\ todo[g] = <<>>

\* How often issue x was handed to AddIssue.
TimesGiven(x) ==
    Cardinality({p \in Goroutines \X (1..MaxAdds + 1) :
        p[2] <= Len(given[p[1]]) /\ WithLanguage(given[p[1]][p[2]]) = x})

SharedCountsMatch ==
    LET s == shared.Summary
        issues == shared.Issues
    IN  /\ s.CriticalCount = CountWhere(issues, LAMBDA x : x.Severity = Critical)
        /\ s.ErrorCount = CountWhere(issues, LAMBDA x : x.Severity = Error)
        /\ s.WarningCount = CountWhere(issues, LAMBDA x : x.Severity = Warning)
        /\ s.InfoCount = CountWhere(issues, LAMBDA x : x.Severity = Info)
        /\ s.HintCount = CountWhere(issues, LAMBDA x : x.Severity = Hint)
        /\ MapCounts(s.IssuesByType, issues, LAMBDA x : x.Type)
        /\ MapCounts(s.IssuesByFile, issues, LAMBDA x : x.File)
        /\ MapCounts(s.IssuesByTool, issues, LAMBDA x : x.Tool)

\* C7: at most one goroutine is between AddIssue's Lock and Unlock, so the
\* append and the count update of one issue are not overlapped by another
\* AddIssue; whenever no AddIssue is in its critical section the counts match
\* the issue sequence; and once every goroutine has returned the sequence
\* holds every added issue exactly as often as it was added.
C7_AddIssueExclusive ==
    /\ Cardinality(InCriticalSection) <= 1
    /\ InCriticalSection = {} => SharedCountsMatch
    /\ AllReturned =>
          /\ \A g \in Goroutines : \A i \in 1..Len(given[g]) :
                LET x == WithLanguage(given[g][i]) IN
                CountWhere(shared.Issues, LAMBDA y : y = x) = TimesGiven(x)
          /\ Len(shared.Issues) = Cardinality({p \in Goroutines \X (1..MaxAdds + 1) :
                                                  p[2] <= Len(given[p[1]])})

\* C7's case: the three goroutines have each added an issue, two of them the
\* same one, and all have returned.
C7_Witness ==
    /\ AllReturned
    /\ \A g \in Goroutines : given[g] # <<>>
    /\ given["go"][1] = given["ai"][1]
    /\ given["go"][1] # given["python"][1]
    /\ Len(shared.Issues) = 3

\* ------------------------------------------------------ agent cache claims

\* The latest call came as far as loading the cache record.
CameToLoad == call.made /\ call.err \notin {StateErr, PathErr}

\* The file holds a whole record: the type definitions and a value.
WholeRecord(file) ==
    /\ file.exists
    /\ Len(file.bytes) = 2
    /\ file.bytes[1].kind = "types"
    /\ file.bytes[2].kind = "value"

\* The fingerprint a whole record was saved with.
RecordHash(file) == file.bytes[2].CommitHash

\* The record the latest call found could be opened and decoded.
RecordLoads == call.openOk /\ WholeRecord(call.found)

\* C8: a NewAgent call that comes to load the cache record takes its chunk
\* store from the record if and only if the record can be opened, decodes,
\* and holds the fingerprint the call computed; then it indexes nothing.  In
\* every other case (no file, a file that cannot be opened, a cut-short
\* record, another fingerprint) the repository is indexed and the only error
\* the call can return is the index walk's.
C8_HitIffValidRecord ==
    CameToLoad =>
        /\ call.hit <=> (RecordLoads /\ RecordHash(call.found) = call.hash)
        /\ call.hit => ~call.indexed /\ call.err = "" /\ Header(cacheFile) = call.found
        /\ ~call.hit => call.indexed /\ call.err \in {"", IndexErr}

\* C8's case: the call found a whole record that it could open, saved under
\* another fingerprint, and indexed the repository instead of using it.
C8_Witness ==
    /\ CameToLoad
    /\ RecordLoads
    /\ RecordHash(call.found) # call.hash
    /\ call.indexed
    /\ call.err = ""
    /\ Len(call.store) = 2

\* The latest call was made with the record of an earlier call in the cache
\* file, computed the fingerprint that call had computed, found the cache
\* path and could open the file.
SecondCall ==
    /\ call.made
    /\ call.again
    /\ call.pathOk
    /\ call.openOk

\* C9: when a call indexed the repository and saved the record, a later call
\* that computes the same fingerprint and can open the record returns an
\* agent with the very chunk store of the first (same chunks, same order),
\* asks for no embedding and reads no repository file.
C9_SecondCallFromCache ==
    SecondCall =>
        /\ call.err = ""
        /\ call.hit
        /\ first.made
        /\ call.store = first.store
        /\ call.embedCalls = 0
        /\ call.fileReads = 0
        /\ ~call.indexed

\* C9's case: the first call indexed two chunks and the second call took
\* them from the cache.
C9_Witness ==
    /\ SecondCall
    /\ call.hit
    /\ Len(first.store) = 2
    /\ first.store[1].Content # first.store[2].Content
    /\ call.store = first.store

\* C10: no failure of the cache storage makes NewAgent fail: a call returns
\* an error only when the fingerprint cannot be computed or the index walk
\* fails; when the cache path cannot be found the repository is indexed all
\* the same; and a call that indexed but could not write the record returns
\* its agent.
C10_CacheFailureNotFatal ==
    call.made =>
        /\ call.err \in {"", StateErr, IndexErr}
        /\ (call.err # StateErr /\ ~call.pathOk) => call.indexed
        /\ (call.indexed /\ call.saved = "failed") => call.err = ""

\* ------------------------------------------------------- retrieval claims

\* The place in the store of a chunk (the chunks of a store are all different).
PlaceOf(c) == CHOOSE i \in 1..Len(vectorStore) : vectorStore[i] = c

Similarity(c) == cosineSimilarity(request.embedding, c.Embedding)

Returned == {retrieved[i] : i \in 1..Len(retrieved)}

\* The part of C11 that sort.Slice does give: min(k, |S|) chunks of the store,
\* in non-increasing similarity, none left out that is more similar.
TopKBySimilarity ==
    /\ Len(retrieved) = (IF request.k < Len(vectorStore) THEN request.k ELSE Len(vectorStore))
    /\ \A i \in 1..Len(retrieved) : \E p \in 1..Len(vectorStore) : vectorStore[p] = retrieved[i]
    /\ \A i, j \in 1..Len(retrieved) :
          i < j => /\ ~Greater(Similarity(retrieved[j]), Similarity(retrieved[i]))
                   /\ retrieved[i] # retrieved[j]
    /\ \A p \in 1..Len(vectorStore) :
          vectorStore[p] \notin Returned =>
              \A i \in 1..Len(retrieved) :
                  ~Greater(Similarity(vectorStore[p]), Similarity(retrieved[i]))

\* Returned chunks of equal similarity stand in their order of insertion.
TiesInInsertionOrder ==
    \A i, j \in 1..Len(retrieved) :
        (i < j /\ ~Greater(Similarity(retrieved[i]), Similarity(retrieved[j])))
            => PlaceOf(retrieved[i]) < PlaceOf(retrieved[j])

\* C11: retrieveChunks(q, k) returns min(k, |S|) chunks in non-increasing
\* similarity to q, chunks of equal similarity in their insertion order, and
\* leaves out no chunk that is more similar than a returned one.
C11_TopKStable ==
    request.made => TopKBySimilarity /\ TiesInInsertionOrder

\* ------------------------------------------------------------- Ask claims

\* Routing failed: the completion call or the decoding of its response did.
RoutingFailed == reply.routeErr # <<>>

\* The router chose the structural tool.
ChoseAST == ~RoutingFailed /\ reply.choice.Tool = "ast_tool"

\* The RAG answerer was run on the question that was asked.
RanRAG == reply.rag.ran /\ reply.rag.question = reply.question

\* C12: when the routing call fails, its response does not decode, or it
\* names another tool than the structural one, Ask answers through the RAG
\* answerer: the structural tool is not run and Ask returns what the RAG
\* answerer returns, so that no routing failure reaches the caller.
C12_RoutingFallsBackToRAG ==
    (reply.made /\ ~ChoseAST) =>
        /\ RanRAG
        /\ ~reply.astRan
        /\ reply.answer = reply.rag.answer
        /\ reply.err = reply.rag.err

\* C12's case: the response did not decode and the RAG answerer answered.
C12_Witness ==
    /\ reply.made
    /\ reply.routeErr = <<"failed to decode tool choice">>
    /\ RanRAG
    /\ reply.err = <<>>
    /\ reply.answer = <<"the model's text">>

\* C13: when the structural tool was chosen and its execution fails, the RAG
\* answerer is run on the question asked; if it succeeds Ask returns, without
\* error, a note that names the tool's failure followed by the RAG answer,
\* and if it fails Ask returns one error that reports both failures.
C13_ASTFailureFallsBack ==
    (reply.made /\ ChoseAST /\ reply.astErr # <<>>) =>
        /\ reply.astRan
        /\ RanRAG
        /\ reply.rag.err = <<>> =>
              /\ reply.err = <<>>
              /\ \E n \in 1..Len(reply.answer) :
                    /\ Contains(SubSeq(reply.answer, 1, n), reply.astErr)
                    /\ SubSeq(reply.answer, n + 1, Len(reply.answer)) = reply.rag.answer
        /\ reply.rag.err # <<>> =>
              /\ reply.answer = <<>>
              /\ Contains(reply.err, reply.astErr)
              /\ Contains(reply.err, reply.rag.err)

\* C13's case: the tool did not find the file and the RAG answerer answered
\* from retrieved chunks.
C13_Witness ==
    /\ reply.made
    /\ ChoseAST
    /\ reply.astErr = <<"file not found: ", "gone.go">>
    /\ RanRAG
    /\ Len(reply.rag.retrieved) = topK
    /\ reply.err = <<>>
    /\ reply.answer # reply.rag.answer

\* C14: Ask returns an error only when the RAG answerer was run and failed;
\* on every path on which it was not run Ask returns an answer.
C14_ErrorOnlyFromRAG ==
    (reply.made /\ reply.err # <<>>) => (reply.rag.ran /\ reply.rag.err # <<>>)

\* ------------------------------------------- determinism, scoring, merging

\* The keys of the map that removeDuplicates builds from the delivered issues.
DeliveredKeys == DOMAIN IssueMap(DeliveredIssues, Len(DeliveredIssues))

\* C16: with scoring disabled, every run of AggregateResults on the same
\* issue sequence returns the same issues in the same order: the result at
\* hand is the one any order of ranging over the map leads to, ties on
\* severity weight, type weight, file and line included.
C16_AggregationDeterministic ==
    (Aggregated /\ ~aiEnabled) =>
        \A order \in MapOrders(DeliveredKeys) :
            prioritizeIssues(removeDuplicates(rawIssues, order)).Issues = result.Issues

\* The same set of issues comes out of every run; only the order can differ.
SameIssuesEveryRun ==
    (Aggregated /\ ~aiEnabled) =>
        \A order \in MapOrders(DeliveredKeys) :
            LET other == prioritizeIssues(removeDuplicates(rawIssues, order)).Issues IN
            {other[i] : i \in DOMAIN other} = {result.Issues[i] : i \in DOMAIN result.Issues}

\* The issues as scoreSeverityWithAI leaves them.
Scored == scoreSeverityWithAI(rawIssues, responses)

IsPrefixOf(p, s) == Len(p) <= Len(s) /\ SubSeq(s, 1, Len(p)) = p

\* C17: scoring keeps the number and order of the issues; an issue of tool
\* "Gemini" gets no call and is unchanged; an issue whose call failed or whose
\* answer did not parse is unchanged; an issue scored with success differs
\* from the original in Severity and Description only, and its description is
\* the original one followed by the justification once. What aggregation
\* returns is made of the scored issues.
C17_ScoringFrame ==
    (Aggregated /\ aiEnabled) =>
        /\ Len(Scored) = Len(rawIssues)
        /\ \A i \in 1..Len(rawIssues) :
              LET old == rawIssues[i]
                  new == Scored[i]
                  resp == responses[i]
              IN  /\ old.Tool = "Gemini" => (resp = NoCall /\ new = old)
                  /\ resp.kind \in {"err", "unparseable"} => new = old
                  /\ resp.kind = "ok" =>
                        /\ [new EXCEPT !.Severity = old.Severity,
                                       !.Description = old.Description] = old
                        /\ new.Severity = resp.NewSeverity
                        /\ IsPrefixOf(old.Description, new.Description)
                        /\ new.Description = old.Description \o AIJustification \o resp.Reason
        /\ \A m \in 1..Len(result.Issues) :
              \E i \in 1..Len(Scored) : result.Issues[m] = Scored[i]

\* An aggregation that scored one issue with success, next to an issue that
\* was left alone (of the AI analyzer, or scored without success).
C17_Witness ==
    /\ Aggregated /\ aiEnabled
    /\ \E i, j \in 1..Len(rawIssues) :
          /\ responses[i].kind = "ok"
          /\ Scored[i].Description # rawIssues[i].Description
          /\ \/ rawIssues[j].Tool = "Gemini"
             \/ responses[j].kind \in {"err", "unparseable"}
          /\ \E m \in 1..Len(result.Issues) : result.Issues[m] = Scored[i]

TripleOf(issue) == <<issue.File, issue.Line, issue.Description>>

\* C18: the issues that removeDuplicates returns carry exactly the (file,
\* line, description) triples of the issues it was given, each once: issues
\* that differ in one of the three are never merged.
C18_DistinctTriplesSurvive ==
    Aggregated =>
        /\ {TripleOf(result.Issues[m]) : m \in 1..Len(result.Issues)}
              = {TripleOf(DeliveredIssues[i]) : i \in 1..Len(DeliveredIssues)}
        /\ Len(result.Issues)
              = Cardinality({TripleOf(DeliveredIssues[i]) : i \in 1..Len(DeliveredIssues)})

\* Issues are merged only when their lines are equal or are both outside the
\* code points that string(rune) can spell.
MergedOnlyOnEqualRunes ==
    Aggregated =>
        \A i, j \in 1..Len(DeliveredIssues) :
            IssueKey(DeliveredIssues[i]) = IssueKey(DeliveredIssues[j]) =>
                /\ DeliveredIssues[i].File = DeliveredIssues[j].File
                /\ DeliveredIssues[i].Description = DeliveredIssues[j].Description
                /\ RuneString(DeliveredIssues[i].Line) = RuneString(DeliveredIssues[j].Line)

\* ----------------------------------------------------- fingerprint claims

\* The files of a repository outside .git, each with its text and its
\* modification time.
WorkTree(r) == [p \in DOMAIN r.files \ GitFiles |-> r.files[p]]

\* C15: two fingerprints taken on the fallback path differ whenever a file
\* outside .git was altered in content or modification time, added, removed
\* or renamed between them; two taken from the commit differ whenever
\* another commit was checked out between them.
C15_FingerprintSensitive ==
    [][(/\ fingerprint.made /\ ~fingerprint.err
        /\ fingerprint'.made /\ ~fingerprint'.err
        /\ fingerprint.hash.kind = fingerprint'.hash.kind
        /\ IF fingerprint.hash.kind = "commit"
           THEN fingerprint.of.head # fingerprint'.of.head
           ELSE WorkTree(fingerprint.of) # WorkTree(fingerprint'.of))
       => fingerprint'.hash # fingerprint.hash]_vars

\* The part of C15 that the hashed paths and modification times give: the
\* fingerprint taken changes with the paths outside .git and with their
\* modification times, and with the commit.
HashesPathsAndTimes ==
    (fingerprint.made /\ ~fingerprint.err) =>
        IF fingerprint.hash.kind = "commit"
        THEN fingerprint.hash.commit = fingerprint.of.head
        ELSE /\ Len(fingerprint.hash.files) = Cardinality(DOMAIN WorkTree(fingerprint.of))
             /\ \A p \in DOMAIN WorkTree(fingerprint.of) :
                   \E i \in 1..Len(fingerprint.hash.files) :
                       fingerprint.hash.files[i] =
                           [path |-> p, mtime |-> fingerprint.of.files[p].mtime]

\* ---------------------------------------------------------- Analyze claims

\* Analyze is past wg.Wait().
Joined == apc \notin {"idle", "dispatch"}

\* The issues the analyzers returned to the goroutines of Analyze.
RECURSIVE Found(_)
Found(ws) ==
    IF ws = {} THEN 0
    ELSE LET w == CHOOSE x \in ws : TRUE IN Len(worker[w].issues) + Found(ws \ {w})

\* C19: once Analyze is past the join, every goroutine it dispatched has
\* signalled completion, and each use of the result after the join
\* (dependency analysis, CompleteAnalysis, export, summary log, return) found
\* in it all the issues the analyzers returned and exactly what the result
\* holds from then on: no analyzer writes after the join.
C19_ReadsAfterJoin ==
    /\ Joined =>
          /\ wg = 0
          /\ resultMutex = "free"
          /\ \A w \in Analyzers : worker[w].pc \in {"none", "done"}
          /\ Len(report.Issues) = Found(Analyzers)
    /\ seen # <<>> => Joined
    /\ \A i \in DOMAIN seen : seen[i].issues = report.Issues

\* Analyze has returned a result that two analyzers added issues to, after a
\* third goroutine returned early, and every use of the result took place.
C19_Witness ==
    /\ apc = "returned"
    /\ Len(seen) = 5
    /\ \E a, b, c \in Analyzers :
          /\ a # b
          /\ worker[a].pc = "done" /\ worker[a].issues # <<>>
          /\ worker[b].pc = "done" /\ worker[b].issues # <<>>
          /\ worker[c].pc = "done" /\ worker[c].issues = <<>>
    /\ Len(report.Issues) >= 2

\* ------------------------------------------------------------ index claims

\* The chunks of the indexed repository that got an embedding: file and
\* window number, for the files that could be read.
Embedded ==
    {s \in Slots(indexed.of) : indexed.env.readOk[s[1]] /\ ~indexed.env.embed[s].err}

\* The store entry of such a chunk.
EntryOf(s) ==
    [Path |-> s[1],
     Content |-> ChunksOf[indexed.of.files[s[1]].rev][s[2]],
     Embedding |-> indexed.env.embed[s].values]

\* The place of a path in the traversal.
WalkPlace(p) == CHOOSE i \in 1..Len(WalkOrder) : WalkOrder[i] = p

\* Chunk s is met before chunk t: in an earlier file, or in an earlier window
\* of one file.
MetBefore(s, t) ==
    \/ WalkPlace(s[1]) < WalkPlace(t[1])
    \/ s[1] = t[1] /\ s[2] < t[2]

\* C20: after an index pass that returned no error the store holds exactly
\* the chunks whose embedding succeeded, each once, in the order of the
\* traversal and, within a file, of the windows: a failed embedding leaves
\* out that chunk only.
C20_FailedChunksSkipped ==
    (indexed.made /\ ~indexed.err) =>
        LET store == indexed.vectorStore IN
        /\ Len(store) = Cardinality(Embedded)
        /\ \A s \in Embedded : \E i \in 1..Len(store) : store[i] = EntryOf(s)
        /\ \A i, j \in 1..Len(store) :
              i < j => \E s, t \in Embedded :
                          /\ store[i] = EntryOf(s)
                          /\ store[j] = EntryOf(t)
                          /\ MetBefore(s, t)

\* A pass in which the first chunk of a file got no embedding, and the store
\* holds the file's second chunk followed by a chunk of a later file.
C20_Witness ==
    /\ indexed.made /\ ~indexed.err
    /\ \E p, q \in TextPaths(indexed.of) :
          /\ p # q
          /\ <<p, 2>> \in Embedded
          /\ indexed.env.embed[<<p, 1>>].err
          /\ <<q, 1>> \in Embedded
          /\ indexed.vectorStore = <<EntryOf(<<p, 2>>), EntryOf(<<q, 1>>)>>

\* C21: no entry that cannot be read or inspected aborts an index pass: the
\* pass returns no error and its store holds the embedded chunks of every
\* file that could be read.
C21_BadEntrySkipped ==
    indexed.made =>
        /\ ~indexed.err
        /\ Len(indexed.vectorStore) = Cardinality(Embedded)

\* The part of C21 about os.ReadFile: a file that cannot be read is skipped
\* and the pass goes on without an error.
UnreadableFileSkipped ==
    (indexed.made /\ indexed.env.walkErrAt = 0) =>
        /\ ~indexed.err
        /\ \A p \in TextPaths(indexed.of) :
              ~indexed.env.readOk[p] =>
                  \A i \in 1..Len(indexed.vectorStore) : indexed.vectorStore[i].Path # p
        /\ Len(indexed.vectorStore) = Cardinality(Embedded)

\* ------------------------------------------------ Claims on cancellation

\* The calls of the pass of the session.
SessionCalls == CallsFrom(session.of, session.env, 1)

\* The context was cancelled while the pass of the session was going on.
CancelledWhileIndexing ==
    session.made /\ session.indexed /\ session.done < Len(SessionCalls)

\* The store entry of the call s when it is answered.
EntryOfCall(s) ==
    [Path |-> s[1], Content |-> ChunksOf[session.of.files[s[1]].rev][s[2]],
     Embedding |-> EmbedVector.values]

\* C22: when the context is cancelled during the index pass of NewAgent, and
\* the walk itself meets no error, NewAgent returns no error and the store of
\* the agent holds every chunk whose embedding returned before the
\* cancellation.
C22_CancelledKeepsEmbedded ==
    (CancelledWhileIndexing /\ session.env.walkErrAt = 0) =>
        /\ session.err = ""
        /\ \A i \in 1..session.done :
              \E j \in 1..Len(session.store) : session.store[j] = EntryOfCall(SessionCalls[i])

\* A pass cancelled after some of its embeddings and before others.
C22_Witness ==
    /\ CancelledWhileIndexing
    /\ session.env.walkErrAt = 0
    /\ session.done > 0
    /\ session.err = ""
    /\ Len(session.store) = session.done

\* The files the pass has tried to read when it makes its call number n.
ReadsByCall(n) ==
    LET entries == WalkEntries(session.of)
        at == CHOOSE k \in 1..Len(entries) : entries[k] = SessionCalls[n][1]
    IN  Cardinality({k \in 1..at : entries[k] \in TextFiles})

\* C23: once the context is cancelled the pass reads no further file, starts
\* no further embedding request and NewAgent writes no cache file.
C23_CancelStopsWork ==
    CancelledWhileIndexing =>
        /\ session.fileReads <= ReadsByCall(session.done + 1)
        /\ session.embedCalls <= session.done + 1
        /\ session.saved = "no"

\* C28: what NewAgent saves under the fingerprint is a complete index: every
\* chunk of every text file of the repository.
C28_SavedIsComplete ==
    (session.made /\ session.saved = "ok") =>
        Len(session.store) = Cardinality(Slots(session.of))

\* ------------------------------------------------- Claims on the chunks

\* The chunks appended so far are windows of the text: none empty, none
\* longer than chunkSize, their starts chunkSize - chunkOverlap apart.
ChunksAreWindows ==
    \A k \in 1..Len(split.chunks) :
        LET c == split.chunks[k] IN
        /\ c.from = (k - 1) * 462
        /\ c.from < c.to
        /\ c.to - c.from <= 512
        /\ c.to <= split.text.len

\* What splitIntoChunks returns: nothing for the empty text, else chunks in
\* which every position of the text lies.
ReturnedCoverText ==
    split.pc = "returned" =>
        /\ split.text.len = 0 => split.chunks = <<>>
        /\ \A pos \in 0..(split.text.len - 1) :
              \E k \in 1..Len(split.chunks) :
                  split.chunks[k].from <= pos /\ pos < split.chunks[k].to

\* C24: splitIntoChunks returns on every text; the empty text gives no chunk;
\* of a text of n > 0 runes every chunk is non-empty and at most 512 runes
\* long, consecutive chunks start 462 runes apart, and every position of the
\* text lies in a chunk.
C24_ChunksCoverText ==
    /\ [](ChunksAreWindows /\ ReturnedCoverText)
    /\ <>(split.pc = "returned")

\* A text of three chunks, the last one shorter than the window.
C24_Witness ==
    /\ split.pc = "returned"
    /\ Len(split.chunks) = 3
    /\ split.chunks[3].to - split.chunks[3].from < 50
    /\ split.chunks = splitIntoChunks(split.text)

\* ------------------------------------------- Claims on re-scored severity

\* C26: after AggregateResults every issue whose severity was one of
\* CRITICAL, ERROR, WARNING, INFO, HINT has a severity of that set.
C26_SeverityStaysKnown ==
    Aggregated =>
        /\ \A i \in 1..Len(rawIssues) :
              rawIssues[i].Severity \in KnownSeverities =>
                  Scored[i].Severity \in KnownSeverities
        /\ (\A i \in 1..Len(rawIssues) : rawIssues[i].Severity \in KnownSeverities) =>
              \A m \in 1..Len(result.Issues) : result.Issues[m].Severity \in KnownSeverities

\* --------------------------------------------------- Claims on staleness

\* Every chunk of the store is a piece of what its file holds in repository r.
Fresh(store, r) ==
    \A i \in 1..Len(store) :
        /\ store[i].Path \in DOMAIN r.files
        /\ store[i].Content.text = Text(r.files[store[i].Path].rev).id

\* C27: a NewAgent call that takes the cache record as a hit gets a store
\* whose chunks are pieces of the present content of the files.
C27_HitIsFresh ==
    [][(call' # call /\ call'.hit /\ repo' = repo) => Fresh(call'.store, repo)]_vars

\* -------------------------------------------------- Claims on similarity

ZeroNorm(v) == \A i \in 1..Len(v) : v[i] = 0

\* C25: every chunk of the store carries an embedding as long as the one of
\* the question, scoring never fails on an index, and an embedding of norm
\* zero, the empty one too, scores 0 against anything.
C25_SimilarityDefined ==
    sim.asked =>
        /\ \A i \in 1..Len(sim.store) : Len(sim.store[i]) = Len(sim.question)
        /\ ~sim.panicked
        /\ \A i \in 1..Len(sim.store) :
              (ZeroNorm(sim.store[i]) \/ ZeroNorm(sim.question)) =>
                  sim.scores[i] = Fraction(0, 1)

\* The part of C25 that holds: when scoring does not fail, a zero-norm
\* embedding scores 0.
ZeroNormScoresZero ==
    (sim.asked /\ ~sim.panicked) =>
        \A i \in 1..Len(sim.store) :
            (ZeroNorm(sim.store[i]) \/ ZeroNorm(sim.question)) =>
                sim.scores[i] = Fraction(0, 1)

\* The scoring of a question fails on a chunk without values.
EmptyEmbeddingPanics ==
    sim.asked /\ sim.panicked /\ \E i \in 1..Len(sim.store) : sim.store[i] = <<>>

\* ------------------------------------------------- Claims on the join

\* The goroutines that were started and have not signalled completion.
Running == {w \in Analyzers : worker[w].pc \notin {"none", "done"}}

\* C30: whatever the analyzers do (success, error, no tools, no analyzer),
\* each dispatched goroutine signals completion once: the counter of the
\* WaitGroup is the number of goroutines still running and a goroutine that
\* is done stays done; the join returns and Analyze returns; and the result
\* Analyze returns holds all the issues of the analyzers that succeeded and
\* no other.
C30_JoinReturns ==
    /\ [](apc # "idle" => wg = Cardinality(Running))
    /\ [][\A w \in Analyzers : worker[w].pc = "done" => worker'[w].pc = "done"]_vars
    /\ [](apc = "returned" =>
            /\ pending = {} /\ Running = {}
            /\ Len(report.Issues) = Found(Analyzers))
    /\ <>(apc = "returned")

\* Analyze returned after one goroutine returned early, one analyzer failed
\* or found nothing, and two analyzers added issues.
C30_Witness ==
    /\ apc = "returned"
    /\ \A w \in Analyzers : worker[w].pc = "done"
    /\ worker["javascript"].issues = <<>>
    /\ \E a, b \in Analyzers : a # b /\ worker[a].issues # <<>> /\ worker[b].issues # <<>>
    /\ \E c \in Analyzers \ {"javascript"} : worker[c].issues = <<>>
    /\ Len(report.Issues) = Found(Analyzers)

\* ------------------------------------------- Claims on concurrent sessions

\* C29: a session takes as a hit only a record that one saveCache call wrote
\* in full and whose fingerprint is its own.
C29_HitIsOneWholeRecord ==
    \A s \in DOMAIN sess :
        sess[s].hit =>
            /\ sess[s].data.CommitHash = sess[s].hash
            /\ sess[s].data \in saved

\* The part of C29 that holds: a record that is not whole (the file was
\* created, or holds the type definitions only, or ends before the last
\* chunk the value announces) is a miss, and a hit bears the fingerprint of
\* the session.
PartialIsMiss ==
    \A s \in DOMAIN sess :
        sess[s].hit =>
            /\ sess[s].data.CommitHash = sess[s].hash
            /\ Len(sess[s].got) = 2 + sess[s].got[2].n
            /\ \A i \in 1..Len(sess[s].got) : sess[s].got[i].kind # "hole"

====
